---- MODULE Spec2Model ----
(***************************************************************************)
(* The asynchronous task pipeline of audio-text-translator: the ingress    *)
(* service (create_task / cancel_task), the audio and translation workers, *)
(* the packaging worker, the three broker topics with their consumer       *)
(* groups, the task table and the package directory.                       *)
(*                                                                         *)
(* Every await of the Python code that touches the task table, the broker  *)
(* or the package directory is a step boundary: between two such awaits    *)
(* any other process (and, in the packaging worker, any sibling coroutine  *)
(* of the same partition batch) may run.                                   *)
(***************************************************************************)
EXTENDS Naturals, Integers, Sequences, FiniteSets, TLC

(* ---- bounds of the model ---------------------------------------------- *)
MaxTasks  == 1    \* number of POST /tasks requests
MaxEvents == 2    \* number of disturbances of a run: a DELETE request that
                  \* passes the status test, an exception raised by a
                  \* collaborator (engine, database, broker, file system),
                  \* a worker crash, a record the broker stores twice, a
                  \* POST body other than the two plain ones, an engine
                  \* answer other than the one asked for (missing or extra
                  \* languages, empty transcript)

MaxEntries == 2   \* translations added to the records of one package list
MaxCreates == 2   \* calls of create on one path
MaxTicks   == 3   \* steps of the clock
MaxListed  == 2   \* entries of the translation list an engine call returns

(* ---- program constants ------------------------------------------------ *)
MaxAttempts == 3   \* @retry(stop=stop_after_attempt(3), wait=wait_none())

(* ---- TaskStatus / TaskType -------------------------------------------- *)
PENDING    == "pending"
TO_PACKING == "to_packing"
COMPLETED  == "completed"
FAILED     == "failed"
CANCELLED  == "cancelled"
TaskStatus == {PENDING, TO_PACKING, COMPLETED, FAILED, CANCELLED}

AUDIO == "audio"
TEXT  == "text"
TaskType == {AUDIO, TEXT}

NULL   == "null"   \* a NULL column
NoPath == 0        \* packed_file IS NULL (paths are task ids: {task_id}.bin)
NoTime == 0        \* completed_at IS NULL (instants are counted from 1)
GIVEN  == "given"  \* a request string that was supplied
EMPTY  == ""       \* the empty transcript
TEXTOF == "text"   \* a non-empty transcript

(* LanguageCode, two of its ten members *)
Langs == {"en-US", "zh-CN"}

(* A NULL JSON column (target_languages, translations); the columns hold   *)
(* the set of languages of the stored list otherwise.                      *)
NoList == {NULL}

TaskIds == 1..MaxTasks
Stage   == {"audio", "translation"}   \* the two stage workers, named by their topic
Package == "package"
Topics  == Stage \cup {Package}

(* The row of translation_tasks for one task_id; NoTask is "no such row".  *)
NoTask ==
    [type |-> NULL, status |-> NULL, source_file |-> NULL,
     reference_text |-> NULL, text |-> NULL, target_languages |-> NoList,
     stt_result |-> NULL, stt_score |-> NULL,
     translations |-> NoList, packed_file |-> NoPath,
     completed_at |-> NoTime]

(* CreateTaskRequest: type and target_languages are required, the three    *)
(* strings are optional and default to None; the class has no validator.   *)
(* target_languages is a list of LanguageCode of any length, the empty     *)
(* list included.                                                          *)
TargetLanguages == {{}, Langs}

(* The two plain requests: an audio file with its reference text, or a    *)
(* text, to be translated into the languages.                              *)
PlainRequests ==
    {[type |-> AUDIO, source_file |-> GIVEN, reference_text |-> GIVEN,
      text |-> NULL, target_languages |-> Langs],
     [type |-> TEXT, source_file |-> NULL, reference_text |-> NULL,
      text |-> GIVEN, target_languages |-> Langs]}

(* The requests of the model: a plain request, or one that leaves out the  *)
(* input of its type (source_file, text) or the languages.                 *)
OneFieldMissing(r) ==
    {r,
     [r EXCEPT !.source_file = NULL],
     [r EXCEPT !.text = NULL],
     [r EXCEPT !.target_languages = {}]}

CreateTaskRequest == UNION {OneFieldMissing(r) : r \in PlainRequests}

(* The row create_task builds from a request (lines 38-47). *)
TranslationTask(request) ==
    [type |-> request.type, status |-> PENDING,
     source_file |-> request.source_file,
     reference_text |-> request.reference_text, text |-> request.text,
     target_languages |-> request.target_languages,
     stt_result |-> NULL, stt_score |-> NULL,
     translations |-> NoList, packed_file |-> NoPath,
     completed_at |-> NoTime]

VARIABLES
    store,        \* task table: task id -> row (committed state)
    topic,        \* topic -> log of QueuedTask messages (task ids); offset o is topic[o+1]
    committed,    \* topic -> offset committed by the topic's consumer group
    position,     \* topic -> fetch position of the running consumer (in memory)
    wpc,          \* stage worker -> where process_single_message stands
    outcome,      \* stage worker -> offset -> how its last processing ended
    batch,        \* packaging worker: offset -> coroutine state of the partition batch
    files,        \* package directory: task id -> state of {task_id}.bin
    packages,     \* package directory: task id -> what {task_id}.bin holds
    completions,  \* task id -> deliveries that wrote the file and set COMPLETED
    cancelpc,     \* task id -> a cancel_task call between its read and its commit
    events,       \* disturbances so far (see MaxEvents)
    attempts,     \* stage worker -> failed attempts of the external work in
                  \* the present run of process_single_message
    runs          \* stage worker -> runs of process_single_message that
                  \* raised, for the message it took last

vars == <<store, topic, committed, position, wpc, outcome,
          batch, files, packages, completions, cancelpc, events, attempts,
          runs>>

(* The package codec (core/utils/package_file.py) taken by itself: one     *)
(* path on disk, one caller that builds a list of TaskData and writes it   *)
(* with TranslationPackage.create, one reader that opens the path.         *)
VARIABLES
    tasks,        \* the list[TaskData] handed to create
    disk,         \* the file at file_path: NoFile, or its cells in file order
    cpc,          \* where create stands: none, opened, flushed
    creates,      \* completed calls of create
    last,         \* the file as the first completed create left it
    view          \* the reading TranslationPackage: outcome of open, its index

pkgvars == <<tasks, disk, cpc, creates, last, view>>

(* The worker processes taken by themselves: the launcher                  *)
(* (core/worker/main.py) and the consume loop of the packaging worker with *)
(* its batch size (process_package_messages).                              *)
VARIABLES
    launcher,           \* the launcher process: not started, ImportError, running
    argv,               \* the argument the launcher was started with
    workers,            \* the worker loops the launcher has started
    loop,               \* the packaging consume loop: not started, running
    clock,              \* datetime.now(), in seconds
    ticks,              \* steps of the clock so far (see MaxTicks)
    memory,             \* memory.percent as get_dynamic_batch_size read it last
    evaluations,        \* calls of get_dynamic_batch_size so far
    batch_size,         \* batch_size of process_package_messages
    last_memory_check,  \* last_memory_check of process_package_messages
    max_records         \* max_records of the loop's last getmany

wrkvars == <<launcher, argv, workers, loop, clock, ticks, memory, evaluations,
             batch_size, last_memory_check, max_records>>

(* process_audio_task taken call by call (audio_worker.py 48-94): the      *)
(* external calls of the attempt the audio worker is making.               *)
VARIABLES
    calls         \* the attempt (offset of its message, failed attempts before
                  \* it) and where aspeech2text, validate_stt and translate
                  \* stand in it

audvars == <<calls>>

(* PackageHeader taken by itself (package_file.py 33-62), with offsets of   *)
(* any size: the header create writes at the end and the one load_index    *)
(* reads.                                                                  *)
VARIABLES
    hpc,            \* none, told, packed, struct.error, unpacked
    offset_told,    \* index_offset of create: what f.tell() returned (line 202)
    header,         \* PackageHeader(index_offset).pack()
    header_read     \* index_offset of PackageHeader.unpack(header)

hdrvars == <<hpc, offset_told, header, header_read>>

(* One text task with the translation list as the engine returned it       *)
(* (entries in order, each with its text), its package, and the answers of  *)
(* the two read endpoints and of query_text.                               *)
VARIABLES
    stored,         \* the task's row: status and the translations column
    packed,         \* TaskData.pack() of the record process_package_task built
    answers         \* what the last reads returned for one language

rdvars == <<stored, packed, answers>>

units  == <<pkgvars, wrkvars, audvars, hdrvars, rdvars>>   \* what the pipeline's steps leave alone
notpkg == <<vars, wrkvars, audvars, hdrvars, rdvars>>      \* what the package codec's steps leave alone
notwrk == <<vars, pkgvars, audvars, hdrvars, rdvars>>      \* what the worker processes' steps leave alone
notaud == <<vars, pkgvars, wrkvars, hdrvars, rdvars>>      \* what the calls of an attempt leave alone
nothdr == <<vars, pkgvars, wrkvars, audvars, rdvars>>      \* what the header's steps leave alone
notrd  == <<vars, pkgvars, wrkvars, audvars, hdrvars>>     \* what the reads' steps leave alone

allvars == <<vars, pkgvars, wrkvars, audvars, hdrvars, rdvars>>

Offsets == 0..(MaxTasks + MaxEvents - 1)   \* offsets of a topic

(* TextSource, and TaskData.translations of the one task a package holds: *)
(* source -> languages with a text.  NoData: the two empty dictionaries of *)
(* TaskData.__init__ (also what is known of a file that cannot be read).   *)
TextSource == {"TEXT", "AUDIO"}

NoData == [source \in TextSource |-> {}]

SetMax(S) == CHOOSE x \in S : \A y \in S : y <= x

MsgAt(tp, o) == topic[tp][o + 1]

(* A record of a topic is the task_id of the QueuedTask it carries.  Two    *)
(* records that no create_task published: BAD, a value that is no          *)
(* QueuedTask, and UNKNOWN, a QueuedTask whose task_id has no row.         *)
BAD     == 0
UNKNOWN == MaxTasks + 1

(* validate_message: QueuedTask.model_validate(msg.value) succeeds *)
validate_message(m) == m # BAD

(* TranslationService.get_task *)
get_task(t) == IF t \in TaskIds THEN store[t] ELSE NoTask

PipelineInit ==
    /\ store = [t \in TaskIds |-> NoTask]
    /\ topic = [tp \in Topics |-> << >>]
    /\ committed = [tp \in Topics |-> 0]
    /\ position = [tp \in Topics |-> 0]
    /\ wpc = [w \in Stage |-> "idle"]
    /\ outcome = [w \in Stage |-> [o \in Offsets |-> "none"]]
    /\ batch = << >>
    /\ files = [t \in TaskIds |-> "absent"]
    /\ packages = [t \in TaskIds |-> NoData]
    /\ completions = [t \in TaskIds |-> 0]
    /\ cancelpc = [t \in TaskIds |-> "none"]
    /\ events = 0
    /\ attempts = [w \in Stage |-> 0]
    /\ runs = [w \in Stage |-> 0]

(* ======================= ingress service =============================== *)

(* producer.send(topic, queued_task) with n the number of records the      *)
(* broker ends up storing: 0 when the send raises, 1 normally, 2 when the  *)
(* produce request is retried after a lost acknowledgement (the producer   *)
(* is not idempotent).  0 and 2 count as disturbances.                                *)
Stored == {0, 1, 2}

SendEvents(n) == IF n = 1 THEN 0 ELSE 1

producer_send(tp, t, n) ==
    [topic EXCEPT ![tp] = IF n = 0 THEN @
                          ELSE IF n = 1 THEN Append(@, t)
                          ELSE Append(Append(@, t), t)]

(* TranslationService.create_task: insert PENDING and commit, then publish *)
(* to the topic of the task's type.  When the send raises the row stays    *)
(* and no message exists.                                                  *)

(* The topic choice with the TEXT branch lost: every task goes to the      *)
(* audio topic.                                                            *)
TopicOfAudioOnly(type) == "audio"

TopicOf(type) == IF type = AUDIO THEN "audio" ELSE "translation"

(* POST /tasks: create_translation_task has no exception handler, so a     *)
(* send that raises ends the request with 500; otherwise 200.              *)
create_translation_task_status(n) == IF n = 0 THEN 500 ELSE 200

(* Every request other than a plain one is a disturbance. *)
RequestEvents(request) == IF request \in PlainRequests THEN 0 ELSE 1

(* create_task with the publish moved before the insert, and the insert   *)
(* failing: a message without a record.                                    *)
create_task_publish_first(t, request, n) ==
    /\ events + SendEvents(n) + RequestEvents(request) <= MaxEvents
    /\ events' = events + SendEvents(n) + RequestEvents(request)
    /\ store[t] = NoTask
    /\ \A u \in TaskIds : u < t => store[u] # NoTask
    /\ n >= 1
    /\ topic' = producer_send(TopicOf(request.type), t, n)
    /\ UNCHANGED <<units, attempts, runs>>
    /\ UNCHANGED <<store, committed, position, wpc, outcome, batch, files,
                   packages, completions, cancelpc>>

create_task(t, request, n) ==
    /\ events + SendEvents(n) + RequestEvents(request) <= MaxEvents
    /\ events' = events + SendEvents(n) + RequestEvents(request)
    /\ store[t] = NoTask
    /\ \A u \in TaskIds : u < t => store[u] # NoTask
    /\ store' = [store EXCEPT ![t] = TranslationTask(request)]
    /\ topic' = producer_send(TopicOf(request.type), t, n)
    /\ UNCHANGED <<units, attempts, runs>>
    /\ UNCHANGED <<committed, position, wpc, outcome, batch, files, packages,
                   completions, cancelpc>>

(* TranslationService.cancel_task, first await: get_task and the status    *)
(* test.  Only the branch that goes on to write is a state change.         *)
(* cancel_task with CANCELLED missing from the list of final statuses. *)
cancel_task_returns_lax(task) ==
    ~(task = NoTask \/ task.status \in {COMPLETED, FAILED})

(* The value cancel_task returns for the row its get_task read: False for  *)
(* no row or a status in [COMPLETED, FAILED, CANCELLED], else True.        *)
cancel_task_returns(task) ==
    ~(task = NoTask \/ task.status \in {COMPLETED, FAILED, CANCELLED})

cancel_task_read(t) ==
    /\ cancelpc[t] = "none"
    /\ cancel_task_returns(get_task(t))
    /\ cancelpc' = [cancelpc EXCEPT ![t] = "read"]
    /\ events < MaxEvents /\ events' = events + 1
    /\ UNCHANGED <<units, attempts, runs>>
    /\ UNCHANGED <<store, topic, committed, position, wpc, outcome, batch,
                   files, packages, completions>>

(* cancel_task, second await: task.status = CANCELLED; db.commit().  The   *)
(* UPDATE is keyed by the row id only and sets the status column.          *)
cancel_task_commit(t) ==
    /\ cancelpc[t] = "read"
    /\ store' = [store EXCEPT ![t].status = CANCELLED]
    /\ cancelpc' = [cancelpc EXCEPT ![t] = "none"]
    /\ UNCHANGED <<units, attempts, runs>>
    /\ UNCHANGED <<topic, committed, position, wpc, outcome, batch, files, packages,
                   completions, events>>

(* DELETE /tasks/{task_id}: 204 when cancel_task returns True, else 404.   *)
cancel_task_status(t) == IF cancel_task_returns(get_task(t)) THEN 204 ELSE 404

(* A record reaches a topic from outside the service. *)
foreign_record(tp, m) ==
    /\ m \in {BAD, UNKNOWN}
    /\ events < MaxEvents /\ events' = events + 1
    /\ topic' = [topic EXCEPT ![tp] = Append(@, m)]
    /\ UNCHANGED <<units, attempts, runs>>
    /\ UNCHANGED <<store, committed, position, wpc, outcome, batch, files, packages,
                   completions, cancelpc>>

(* ---- read endpoints: responses as functions of the stored row ---------- *)
(* The text stored for a language is written as the language itself.       *)
TranslationResponse(code, text) == [status_code |-> code, text |-> text]

(* get_translation without the status test: answers from translations as  *)
(* soon as they are stored.                                                *)
get_translation_any_status(t, language) ==
    LET task == get_task(t)
    IN  IF task = NoTask THEN TranslationResponse(404, NULL)
        ELSE IF task.translations \in {NoList, {}}
             THEN TranslationResponse(404, NULL)
        ELSE IF language \in task.translations
             THEN TranslationResponse(200, language)
        ELSE TranslationResponse(404, NULL)

(* GET /tasks/{task_id}/translations/{language} *)
get_translation(t, language) ==
    LET task == get_task(t)
    IN  IF task = NoTask THEN TranslationResponse(404, NULL)
        ELSE IF task.status # COMPLETED THEN TranslationResponse(400, NULL)
        ELSE IF task.translations \in {NoList, {}}      \* not task.translations
             THEN TranslationResponse(404, NULL)
        ELSE IF language \in task.translations           \* scan of the list
             THEN TranslationResponse(200, language)
        ELSE TranslationResponse(404, NULL)

(* GET /tasks/{task_id}.  TaskResponse declares stt_accuracy: float | None *)
(* and the handler passes task.stt_score, the dictionary the audio worker  *)
(* stored: the constructor raises a ValidationError and the request ends   *)
(* with 500.  translations becomes a language -> text dictionary, empty    *)
(* when the column is NULL.                                                *)
TaskResponse(code, status, stt_result, stt_accuracy, translations) ==
    [status_code |-> code, status |-> status, stt_result |-> stt_result,
     stt_accuracy |-> stt_accuracy, translations |-> translations]

get_task_status(t) ==
    LET task == get_task(t)
    IN  IF task = NoTask THEN TaskResponse(404, NULL, NULL, NULL, {})
        ELSE IF task.stt_score # NULL THEN TaskResponse(500, NULL, NULL, NULL, {})
        ELSE TaskResponse(200, task.status, task.stt_result, NULL,
                          IF task.translations = NoList THEN {}
                          ELSE task.translations)

(* ================= audio worker and translation worker ================= *)
(* Both workers run the same process_single_message; w names the worker by *)
(* its topic.  The consumer delivers the messages of the topic one by one  *)
(* in offset order (async for msg in consumer).                            *)

(* update_task_result of the two workers: the columns the UPDATE sets.     *)
(* The session flushes the attributes assigned on the loaded object, keyed *)
(* by the row id; it does not test the status it read.                     *)
(* text is the transcript of aspeech2text, score the dictionary of          *)
(* DetailedScore.model_dump(), translations the languages of the list the  *)
(* engine returned (a TranslationResult is always truthy, so the audio     *)
(* worker always assigns it).                                              *)
SCORE == "score"   \* a DetailedScore dictionary

update_task_result(w, row, text, translations) ==
    IF w = "audio"
    THEN [row EXCEPT !.stt_result = text, !.stt_score = SCORE,
                     !.translations = translations, !.status = TO_PACKING]
    ELSE [row EXCEPT !.translations = translations, !.status = TO_PACKING]

(* The input of the external call, taken from the QueuedTask (a copy of    *)
(* the request, as the row is): source_file for aspeech2text, text for     *)
(* translate.  With None the call raises a TypeError on every attempt      *)
(* (os.path.join(ROOT_DIR, None), source_text[:50]).                       *)
HasInput(w, row) ==
    IF w = "audio" THEN row.source_file # NULL ELSE row.text # NULL

(* An engine answer is a disturbance when it is not the one asked for; an  *)
(* answer of the model is off in the transcript or in the languages, not   *)
(* in both.                                                                *)
AnswerEvents(w, row, text, translations) ==
    IF translations # row.target_languages \/ (w = "audio" /\ text = EMPTY)
    THEN 1 ELSE 0

Transcripts(w) == IF w = "audio" THEN {EMPTY, TEXTOF} ELSE {NULL}

(* The language sets of the lists the engine returns in the model: none,   *)
(* one, all.                                                               *)
Answers == {{}, {"en-US"}, Langs}

(* The message process_single_message is working on: the consumer's       *)
(* position is one past the message it handed out last.                    *)
CurrentOffset(w) == position[w] - 1

(* consumer.commit() without arguments: commits the consumer's position,   *)
(* the offset after the last message it handed out.                        *)
consumer_commit(w, pos) == [committed EXCEPT ![w] = pos]

(* receive_message without the commit of its two early returns. *)
receive_message_drop_uncommitted(w) ==
    /\ wpc[w] = "idle"
    /\ position[w] < Len(topic[w])
    /\ attempts' = [attempts EXCEPT ![w] = 0]
    /\ runs' = [runs EXCEPT ![w] = 0]
    /\ LET o == position[w]
           task == get_task(MsgAt(w, o))
       IN  /\ position' = [position EXCEPT ![w] = o + 1]
           /\ IF ~validate_message(MsgAt(w, o)) \/ task = NoTask
                 \/ task.status # PENDING
              THEN /\ outcome' = [outcome EXCEPT ![w][o] = "dropped"]
                   /\ UNCHANGED <<wpc, committed>>
              ELSE /\ wpc' = [wpc EXCEPT ![w] = "working"]
                   /\ UNCHANGED <<committed, outcome>>
    /\ UNCHANGED units
    /\ UNCHANGED <<store, topic, batch, files, packages, completions, cancelpc, events>>

(* Steps 1-3: take the next message, validate_message, validate_task_status*)
(* (a fresh read of the row).  Message that does not validate, missing     *)
(* task or status # PENDING: commit and return.  Otherwise the external    *)
(* work starts.                                                            *)
receive_message(w) ==
    /\ wpc[w] = "idle"
    /\ position[w] < Len(topic[w])
    /\ attempts' = [attempts EXCEPT ![w] = 0]
    /\ runs' = [runs EXCEPT ![w] = 0]
    /\ LET o == position[w]
           task == get_task(MsgAt(w, o))
       IN  /\ position' = [position EXCEPT ![w] = o + 1]
           /\ IF ~validate_message(MsgAt(w, o)) \/ task = NoTask
                 \/ task.status # PENDING
              THEN /\ committed' = consumer_commit(w, o + 1)
                   /\ outcome' = [outcome EXCEPT ![w][o] = "dropped"]
                   /\ wpc' = wpc
              ELSE /\ wpc' = [wpc EXCEPT ![w] = "working"]
                   /\ UNCHANGED <<committed, outcome>>
    /\ UNCHANGED units
    /\ UNCHANGED <<store, topic, batch, files, packages, completions, cancelpc, events>>

(* @retry(stop=stop_after_attempt(3), wait=wait_none()): after a failed    *)
(* attempt the retry stops when the attempt was the n-th with n >= 3.      *)
(* The same with stop_after_attempt(2). *)
stop_after_two(n) == n >= MaxAttempts - 1

stop_after_attempt(n) == n >= MaxAttempts

(* The failures of the external work of one message are one disturbance,   *)
(* counted at the first; a call that raises because its input is None is   *)
(* none.                                                                   *)
AttemptEvents(w) ==
    IF attempts[w] = 0 /\ runs[w] = 0
       /\ HasInput(w, get_task(MsgAt(w, CurrentOffset(w))))
    THEN 1 ELSE 0

(* Step 4, an attempt of process_audio_task / process_translation_task     *)
(* raises and the retry goes on: the function is called again at once (the *)
(* calls have no effect on the task table or the broker).                  *)
attempt_fails(w) ==
    /\ wpc[w] = "working"
    /\ ~stop_after_attempt(attempts[w] + 1)
    /\ events + AttemptEvents(w) <= MaxEvents
    /\ events' = events + AttemptEvents(w)
    /\ attempts' = [attempts EXCEPT ![w] = @ + 1]
    /\ UNCHANGED <<units, runs>>
    /\ UNCHANGED <<store, topic, committed, position, wpc, outcome, batch, files,
                   packages, completions, cancelpc>>

(* The attempt at which the retry gives up. *)
LastAttempt ==
    CHOOSE n \in 1..MaxAttempts :
        stop_after_attempt(n) /\ \A k \in 1..(n - 1) : ~stop_after_attempt(k)

(* Step 4 fails: process_audio_task / process_translation_task raises on   *)
(* this and on every further attempt up to the last.  The last failure     *)
(* reaches the except clause of process_single_message: log,               *)
(* db.rollback(), return without commit.  The loop goes on with the next   *)
(* message.                                                                *)
(* The same with an except clause that marks the task FAILED. *)
external_call_fails_marking(w) ==
    /\ wpc[w] = "working"
    /\ attempts[w] < LastAttempt
    /\ events + AttemptEvents(w) <= MaxEvents
    /\ events' = events + AttemptEvents(w)
    /\ attempts' = [attempts EXCEPT ![w] = LastAttempt]
    /\ wpc' = [wpc EXCEPT ![w] = "idle"]
    /\ outcome' = [outcome EXCEPT ![w][CurrentOffset(w)] = "exhausted"]
    /\ store' = [store EXCEPT ![MsgAt(w, CurrentOffset(w))].status = FAILED]
    /\ UNCHANGED <<units, runs>>
    /\ UNCHANGED <<topic, committed, position, batch, files, packages,
                   completions, cancelpc>>

external_call_fails(w) ==
    /\ wpc[w] = "working"
    /\ attempts[w] < LastAttempt
    /\ events + AttemptEvents(w) <= MaxEvents
    /\ events' = events + AttemptEvents(w)
    /\ attempts' = [attempts EXCEPT ![w] = LastAttempt]
    /\ wpc' = [wpc EXCEPT ![w] = "idle"]
    /\ outcome' = [outcome EXCEPT ![w][CurrentOffset(w)] = "exhausted"]
    /\ UNCHANGED <<units, runs>>
    /\ UNCHANGED <<store, topic, committed, position, batch, files, packages,
                   completions, cancelpc>>

(* The except clause of process_single_message raises: the external work   *)
(* has failed on its last attempt and db.rollback() raises too.  A failing *)
(* rollback is one disturbance of a delivery, counted at the first.        *)
RollbackEvents(w) == IF runs[w] = 0 THEN 1 ELSE 0

(* The exception leaves process_single_message, whose own                  *)
(* @retry(stop=stop_after_attempt(3), wait=wait_none()) runs it again at   *)
(* once with the same message: validate_message, validate_task_status on a *)
(* fresh read of the row, then the external work under a new retry of its  *)
(* own.                                                                    *)
single_message_raises(w) ==
    /\ wpc[w] = "working"
    /\ attempts[w] < LastAttempt
    /\ ~stop_after_attempt(runs[w] + 1)
    /\ events + AttemptEvents(w) + RollbackEvents(w) <= MaxEvents
    /\ events' = events + AttemptEvents(w) + RollbackEvents(w)
    /\ runs' = [runs EXCEPT ![w] = @ + 1]
    /\ attempts' = [attempts EXCEPT ![w] = 0]
    /\ IF get_task(MsgAt(w, CurrentOffset(w))).status # PENDING
       THEN /\ committed' = consumer_commit(w, position[w])
            /\ outcome' = [outcome EXCEPT ![w][CurrentOffset(w)] = "dropped"]
            /\ wpc' = [wpc EXCEPT ![w] = "idle"]
       ELSE UNCHANGED <<committed, outcome, wpc>>
    /\ UNCHANGED units
    /\ UNCHANGED <<store, topic, position, batch, files, packages, completions,
                   cancelpc>>

(* The same on the run at which the retry of process_single_message gives  *)
(* up: the RetryError leaves the async for loop, process_audio_messages /  *)
(* process_text_messages logs it and raises, the worker process ends and   *)
(* is started again at the committed offset of its group.                  *)
single_message_gives_up(w) ==
    /\ wpc[w] = "working"
    /\ attempts[w] < LastAttempt
    /\ stop_after_attempt(runs[w] + 1)
    /\ events + AttemptEvents(w) + RollbackEvents(w) <= MaxEvents
    /\ events' = events + AttemptEvents(w) + RollbackEvents(w)
    /\ wpc' = [wpc EXCEPT ![w] = "idle"]
    /\ outcome' = [outcome EXCEPT ![w][CurrentOffset(w)] = "exhausted"]
    /\ position' = [position EXCEPT ![w] = committed[w]]
    /\ attempts' = [attempts EXCEPT ![w] = 0]
    /\ runs' = [runs EXCEPT ![w] = 0]
    /\ UNCHANGED units
    /\ UNCHANGED <<store, topic, committed, batch, files, packages, completions,
                   cancelpc>>

(* Steps 4-5 succeed: the external call returns and update_task_result     *)
(* commits the row through TranslationService.update_task.                 *)
process_and_update(w, text, translations) ==
    /\ wpc[w] = "working"
    /\ text \in Transcripts(w)
    /\ LET t == MsgAt(w, CurrentOffset(w))
           cost == AnswerEvents(w, get_task(t), text, translations)
       IN  /\ HasInput(w, get_task(t))
           /\ text = EMPTY => translations = get_task(t).target_languages
           /\ events + cost <= MaxEvents
           /\ events' = events + cost
           /\ store' = [store EXCEPT ![t] =
                           update_task_result(w, @, text, translations)]
    /\ wpc' = [wpc EXCEPT ![w] = "updated"]
    /\ UNCHANGED <<units, attempts, runs>>
    /\ UNCHANGED <<topic, committed, position, outcome, batch, files, packages,
                   completions, cancelpc>>

(* Step 5 fails: db.commit() of update_task raises; the except clause      *)
(* rolls the session back, nothing was written.                            *)
update_fails(w) ==
    /\ events < MaxEvents /\ events' = events + 1
    /\ wpc[w] = "working"
    /\ wpc' = [wpc EXCEPT ![w] = "idle"]
    /\ outcome' = [outcome EXCEPT ![w][CurrentOffset(w)] = "failed"]
    /\ UNCHANGED <<units, attempts, runs>>
    /\ UNCHANGED <<store, topic, committed, position, batch, files, packages,
                   completions, cancelpc>>

(* publish with the send moved before the call and the update: the message *)
(* goes out while the row is as validate_task_status read it.              *)
publish_before_update(w, n) ==
    /\ wpc[w] = "working"
    /\ n >= 1
    /\ events + SendEvents(n) <= MaxEvents
    /\ events' = events + SendEvents(n)
    /\ topic' = producer_send(Package, MsgAt(w, CurrentOffset(w)), n)
    /\ wpc' = [wpc EXCEPT ![w] = "published"]
    /\ UNCHANGED <<units, attempts, runs>>
    /\ UNCHANGED <<store, committed, position, outcome, batch, files, packages,
                   completions, cancelpc>>

(* Step 6: producer.send(KAFKA_PACKAGE_TOPIC, queued_task) returns. *)
publish(w, n) ==
    /\ wpc[w] = "updated"
    /\ n >= 1
    /\ events + SendEvents(n) <= MaxEvents
    /\ events' = events + SendEvents(n)
    /\ topic' = producer_send(Package, MsgAt(w, CurrentOffset(w)), n)
    /\ wpc' = [wpc EXCEPT ![w] = "published"]
    /\ UNCHANGED <<units, attempts, runs>>
    /\ UNCHANGED <<store, committed, position, outcome, batch, files, packages,
                   completions, cancelpc>>

(* Step 6 fails: the send raises after update_task has committed; the      *)
(* except clause calls db.rollback() on a session with nothing pending.    *)
publish_fails(w) ==
    /\ wpc[w] = "updated"
    /\ events < MaxEvents /\ events' = events + 1
    /\ wpc' = [wpc EXCEPT ![w] = "idle"]
    /\ outcome' = [outcome EXCEPT ![w][CurrentOffset(w)] = "failed"]
    /\ UNCHANGED <<units, attempts, runs>>
    /\ UNCHANGED <<store, topic, committed, position, batch, files, packages,
                   completions, cancelpc>>

(* Step 7: consumer.commit() *)
commit_offset(w) ==
    /\ wpc[w] = "published"
    /\ committed' = consumer_commit(w, position[w])
    /\ outcome' = [outcome EXCEPT ![w][CurrentOffset(w)] = "advanced"]
    /\ wpc' = [wpc EXCEPT ![w] = "idle"]
    /\ UNCHANGED <<units, attempts, runs>>
    /\ UNCHANGED <<store, topic, position, batch, files, packages, completions,
                   cancelpc, events>>

(* The worker process dies and is started again: everything in memory is   *)
(* lost, the new consumer starts at the committed offset of its group.     *)
crash_stage(w) ==
    /\ events < MaxEvents
    /\ wpc[w] # "idle" \/ position[w] # committed[w]
    /\ events' = events + 1
    /\ wpc' = [wpc EXCEPT ![w] = "idle"]
    /\ position' = [position EXCEPT ![w] = committed[w]]
    /\ attempts' = [attempts EXCEPT ![w] = 0]
    /\ runs' = [runs EXCEPT ![w] = 0]
    /\ UNCHANGED units
    /\ UNCHANGED <<store, topic, committed, outcome, batch, files, packages,
                   completions, cancelpc>>

(* ========================= packaging worker ============================ *)
(* One partition.  batch maps each offset of the polled partition batch to *)
(* the state of its process_single_message coroutine:                      *)
(*   start -> validated -> written -> ok       (returns msg.offset)        *)
(*   start -> dropped                           (returns None)             *)
(*   validated/written -> failed                (except clause, None)      *)
NoBatch == << >>

Finished == {"ok", "dropped", "failed"}

(* consumer.getmany(timeout_ms=1000, max_records=batch_size): the n next   *)
(* records of the partition, n >= 1 (batch_size, 10..100, exceeds every    *)
(* topic length reached here).                                             *)
getmany(n) ==
    /\ DOMAIN batch = {}
    /\ n >= 1
    /\ position[Package] + n <= Len(topic[Package])
    /\ batch' = [o \in position[Package]..(position[Package] + n - 1) |->
                    "start"]
    /\ position' = [position EXCEPT ![Package] = @ + n]
    /\ UNCHANGED <<units, attempts, runs>>
    /\ UNCHANGED <<store, topic, committed, wpc, outcome, files, packages, completions,
                   cancelpc, events>>

(* validate_message, validate_task_status (expects TO_PACKING) *)
validate_task_status(o) ==
    /\ o \in DOMAIN batch
    /\ batch[o] = "start"
    /\ LET task == get_task(MsgAt(Package, o))
       IN  batch' = [batch EXCEPT ![o] =
                        IF ~validate_message(MsgAt(Package, o))
                           \/ task = NoTask \/ task.status # TO_PACKING
                        THEN "dropped" ELSE "validated"]
    /\ UNCHANGED <<units, attempts, runs>>
    /\ UNCHANGED <<store, topic, committed, position, wpc, outcome, files, packages,
                   completions, cancelpc, events>>

(* process_package_task returns: {task_id}.bin is written and closed *)
(* Lines 52-64: the TaskData built from the row.  One TEXT entry per       *)
(* element of task.translations; when task.stt_result is truthy, one AUDIO *)
(* entry per target language.                                              *)
package_data(task) ==
    [source \in TextSource |->
        IF source = "TEXT" THEN task.translations
        ELSE IF task.stt_result \notin {NULL, EMPTY} THEN task.target_languages
        ELSE {}]

process_package_task(o) ==
    /\ o \in DOMAIN batch
    /\ batch[o] = "validated"
    /\ files' = [files EXCEPT ![MsgAt(Package, o)] = "complete"]
    /\ packages' = [packages EXCEPT ![MsgAt(Package, o)] =
                       package_data(get_task(MsgAt(Package, o)))]
    /\ batch' = [batch EXCEPT ![o] = "written"]
    /\ UNCHANGED <<units, attempts, runs>>
    /\ UNCHANGED <<store, topic, committed, position, wpc, outcome,
                   completions, cancelpc, events>>

(* process_package_task raises on each of its MaxAttempts attempts, before *)
(* the file is opened (torn = FALSE) or while it is being written:         *)
(* open(path, "wb") has truncated the file and the write stopped part-way  *)
(* (torn = TRUE).  The last failure reaches the except clause of           *)
(* process_single_message.                                                 *)
package_task_fails(o, torn) ==
    /\ events < MaxEvents /\ events' = events + 1
    /\ o \in DOMAIN batch
    /\ batch[o] = "validated"
    /\ files' = IF torn THEN [files EXCEPT ![MsgAt(Package, o)] = "partial"]
                ELSE files
    /\ packages' = IF torn THEN [packages EXCEPT ![MsgAt(Package, o)] = NoData]
                   ELSE packages
    /\ batch' = [batch EXCEPT ![o] = "failed"]
    /\ UNCHANGED <<units, attempts, runs>>
    /\ UNCHANGED <<store, topic, committed, position, wpc, outcome,
                   completions, cancelpc>>

(* update_task_result of the packaging worker: packed_file, status,        *)
(* completed_at = datetime.now(), then update_task commits.                *)
package_update_task_result(row, package_file, now) ==
    [row EXCEPT !.packed_file = package_file, !.status = COMPLETED,
                !.completed_at = now]

(* datetime.now() at the update of task t: instants are numbered by the    *)
(* updates of the task, a later update reads a later clock.                *)
datetime_now(t) == completions[t] + 1

(* update_package_result with the await of process_package_task lost: the  *)
(* row is completed although the file was never written.                   *)
update_package_result_early(o) ==
    /\ o \in DOMAIN batch
    /\ batch[o] \in {"validated", "written"}
    /\ LET t == MsgAt(Package, o)
       IN  /\ store' = [store EXCEPT ![t] =
                           package_update_task_result(@, t, datetime_now(t))]
           /\ completions' = [completions EXCEPT ![t] = @ + 1]
    /\ batch' = [batch EXCEPT ![o] = "ok"]
    /\ UNCHANGED <<units, attempts, runs>>
    /\ UNCHANGED <<topic, committed, position, wpc, outcome, files, packages, cancelpc,
                   events>>

update_package_result(o) ==
    /\ o \in DOMAIN batch
    /\ batch[o] = "written"
    /\ LET t == MsgAt(Package, o)
       IN  /\ store' = [store EXCEPT ![t] =
                           package_update_task_result(@, t, datetime_now(t))]
           /\ completions' = [completions EXCEPT ![t] = @ + 1]
    /\ batch' = [batch EXCEPT ![o] = "ok"]
    /\ UNCHANGED <<units, attempts, runs>>
    /\ UNCHANGED <<topic, committed, position, wpc, outcome, files, packages, cancelpc,
                   events>>

(* update_task raises: except clause, rollback, return None *)
package_update_fails(o) ==
    /\ events < MaxEvents /\ events' = events + 1
    /\ o \in DOMAIN batch
    /\ batch[o] = "written"
    /\ batch' = [batch EXCEPT ![o] = "failed"]
    /\ UNCHANGED <<units, attempts, runs>>
    /\ UNCHANGED <<store, topic, committed, position, wpc, outcome, files, packages,
                   completions, cancelpc>>

(* process_partition_messages after gather: offsets of the coroutines that *)
(* returned an offset; commit max + 1 when there is one.                   *)
SucceededOffsets(b) == {o \in DOMAIN b : b[o] = "ok"}

(* The same committing past the whole batch, whatever its coroutines       *)
(* returned.                                                               *)
partition_commit_batch(b) ==
    [committed EXCEPT ![Package] = SetMax(DOMAIN b) + 1]

partition_commit(b) ==
    IF SucceededOffsets(b) # {}
    THEN [committed EXCEPT ![Package] = SetMax(SucceededOffsets(b)) + 1]
    ELSE committed

process_partition_messages ==
    /\ DOMAIN batch # {}
    /\ \A o \in DOMAIN batch : batch[o] \in Finished
    /\ committed' = partition_commit(batch)
    /\ batch' = NoBatch
    /\ UNCHANGED <<units, attempts, runs>>
    /\ UNCHANGED <<store, topic, position, wpc, outcome, files, packages, completions,
                   cancelpc, events>>

(* The packaging process dies and is started again. *)
crash_packaging ==
    /\ events < MaxEvents
    /\ DOMAIN batch # {} \/ position[Package] # committed[Package]
    /\ events' = events + 1
    /\ batch' = NoBatch
    /\ position' = [position EXCEPT ![Package] = committed[Package]]
    /\ UNCHANGED <<units, attempts, runs>>
    /\ UNCHANGED <<store, topic, committed, wpc, outcome, files, packages, completions,
                   cancelpc>>

(* ===================== package codec (package_file.py) ================= *)
(* Characters: the letter n, the two quotes, the backslash, the line feed  *)
(* and the NUL byte.  A Python str (and the ASCII bytes it encodes to) is  *)
(* a sequence of characters; a key such as "en-US" counts as one symbol.   *)
LF  == "LF"
NUL == "NUL"

None == <<"None">>   \* Python's None where a str is expected

(* Texts of the model: the empty one; one with a single quote (repr       *)
(* switches to double quotes) and a backslash before an n; one with both   *)
(* quotes (repr escapes the single one) and a line feed.                   *)
Texts ==
    {<< >>, <<"'", "\\", "n">>, <<"'", "\"", LF>>}

(* repr(str): single quotes unless the string holds a single and no double *)
(* quote; the chosen quote and the backslash are escaped, a line feed is   *)
(* written \n.                                                             *)
QuoteOf(s) ==
    IF (\E i \in DOMAIN s : s[i] = "'") /\ ~(\E i \in DOMAIN s : s[i] = "\"")
    THEN "\"" ELSE "'"

RECURSIVE Escape(_, _)
Escape(s, q) ==
    IF s = << >> THEN << >>
    ELSE (IF Head(s) = q \/ Head(s) = "\\" THEN <<"\\", Head(s)>>
          ELSE IF Head(s) = LF THEN <<"\\", "n">>
          ELSE <<Head(s)>>) \o Escape(Tail(s), q)

(* The text between single quotes as it stands, the way an f"'{s}'" would  *)
(* write it.                                                               *)
repr_unescaped(s) == <<"'">> \o s \o <<"'">>

repr(s) == <<QuoteOf(s)>> \o Escape(s, QuoteOf(s)) \o <<QuoteOf(s)>>

(* eval of a string literal: the characters after the opening quote up to  *)
(* the first unescaped closing quote, escapes resolved.                    *)
RECURSIVE Unescape(_, _)
Unescape(l, q) ==
    IF l = << >> THEN << >>
    ELSE IF Head(l) = q THEN << >>
    ELSE IF Head(l) = "\\" /\ Len(l) >= 2
         THEN <<IF l[2] = "n" THEN LF ELSE l[2]>> \o Unescape(Tail(Tail(l)), q)
    ELSE <<Head(l)>> \o Unescape(Tail(l), q)

eval_str(lit) == Unescape(Tail(lit), Head(lit))

(* A Python dict: its <<key, value>> pairs in insertion order.  d[k] = v   *)
(* keeps the place of a key that is present and appends a new one.         *)
Keys(d) == {d[i][1] : i \in DOMAIN d}

DictGet(d, k) ==
    IF k \in Keys(d) THEN d[CHOOSE i \in DOMAIN d : d[i][1] = k][2] ELSE None

DictSet(d, k, v) ==
    IF k \in Keys(d)
    THEN [i \in DOMAIN d |-> IF d[i][1] = k THEN <<k, v>> ELSE d[i]]
    ELSE Append(d, <<k, v>>)

(* TaskData.__init__, add_translation, get_translation *)
TaskData(task_id) ==
    [task_id |-> task_id,
     translations |-> << <<"TEXT", << >> >>, <<"AUDIO", << >> >> >>]

add_translation(d, source, language, text) ==
    [d EXCEPT !.translations =
        DictSet(@, source, DictSet(DictGet(@, source), language, text))]

TaskData_get_translation(d, source, language) ==
    DictGet(DictGet(d.translations, source), language)

(* Enum lookups by value: TextSource(source_str), LanguageCode(lang_str) *)
TextSource_of(v) == CHOOSE source \in TextSource : source = v

LanguageCode(v) == CHOOSE language \in Langs : language = v

(* str(data) of line 125: the dictionary with every key and every value    *)
(* written as its literal; the two outer keys are the record's fields.     *)
str_data(d) ==
    [task_id |-> repr(d.task_id),
     translations |->
        [i \in DOMAIN d.translations |->
            <<repr(<<d.translations[i][1]>>),
              [j \in DOMAIN d.translations[i][2] |->
                  <<repr(<<d.translations[i][2][j][1]>>),
                    repr(d.translations[i][2][j][2])>>]>>]]

(* eval(...) of line 130: the dictionary the literals denote. *)
eval_data(r) ==
    [task_id |-> eval_str(r.task_id),
     translations |->
        [i \in DOMAIN r.translations |->
            <<Head(eval_str(r.translations[i][1])),
              [j \in DOMAIN r.translations[i][2] |->
                  <<Head(eval_str(r.translations[i][2][j][1])),
                    eval_str(r.translations[i][2][j][2])>>]>>]]

(* .encode() / .decode() and zlib.compress / zlib.decompress: lossless     *)
(* library codecs, kept as tagged wrappers of what they carry.             *)
encode(text) == <<"utf-8", text>>
decode(bytes) == bytes[2]
zlib_compress(bytes) == <<"zlib", bytes>>
zlib_decompress(data) == data[2]

(* TaskData.pack *)
TaskData_pack(d) == zlib_compress(encode(str_data(d)))

(* TaskData.unpack: a new TaskData, then add_translation for every entry   *)
(* of the evaluated dictionary, in its order.                              *)
RECURSIVE AddLanguages(_, _, _)
AddLanguages(task, source, translations) ==
    IF translations = << >> THEN task
    ELSE AddLanguages(add_translation(task, source,
                                      LanguageCode(Head(translations)[1]),
                                      Head(translations)[2]),
                      source, Tail(translations))

RECURSIVE AddSources(_, _)
AddSources(task, items) ==
    IF items = << >> THEN task
    ELSE AddSources(AddLanguages(task, TextSource_of(Head(items)[1]),
                                 Head(items)[2]),
                    Tail(items))

TaskData_unpack(data) ==
    LET decompressed == eval_data(decode(zlib_decompress(data)))
    IN  AddSources(TaskData(decompressed.task_id), decompressed.translations)

(* ---- the file ---------------------------------------------------------- *)
(* A file is the sequence of the cells written to it, each with its size   *)
(* in bytes; the offset of a cell is the sum of the sizes before it.       *)
NoFile == <<[kind |-> "no such file", size |-> 0]>>

PackageHeader_SIZE == 9    \* struct.calcsize("!4sBI")
IndexEntry_SIZE    == 48   \* struct.calcsize("!36sIQ")
TaskIdWidth        == 36   \* the 36s of IndexEntry.FORMAT

MAGIC   == "MLTR"
VERSION == 1

(* Task ids of the model: a one-character id and a 36-character one. *)
PackageIds == {<<"n">>, [i \in 1..TaskIdWidth |-> "n"]}

(* struct's 36s: the encoded id cut to 36 bytes or padded with NUL bytes;  *)
(* IndexEntry.unpack strips NUL from both ends of what it decodes.         *)
Pad36(id) ==
    IF Len(id) >= TaskIdWidth THEN SubSeq(id, 1, TaskIdWidth)
    ELSE id \o [i \in 1..(TaskIdWidth - Len(id)) |-> NUL]

RECURSIVE StripNUL(_)
StripNUL(b) ==
    IF b = << >> THEN b
    ELSE IF Head(b) = NUL THEN StripNUL(Tail(b))
    ELSE IF b[Len(b)] = NUL THEN StripNUL(SubSeq(b, 1, Len(b) - 1))
    ELSE b

PackageHeader(index_offset) ==
    [kind |-> "header", size |-> PackageHeader_SIZE, magic |-> MAGIC,
     version |-> VERSION, index_offset |-> index_offset]

(* IndexEntry: in memory (task_id, offset, size), packed as a 48-byte cell *)
IndexEntry(task_id, offset, size) ==
    [task_id |-> task_id, offset |-> offset, size |-> size]

(* The same with size and offset in each other's place. *)
IndexEntry_pack_swapped(entry) ==
    [kind |-> "entry", size |-> IndexEntry_SIZE, task_id |-> Pad36(entry.task_id),
     data_size |-> entry.offset, offset |-> entry.size]

IndexEntry_pack(entry) ==
    [kind |-> "entry", size |-> IndexEntry_SIZE, task_id |-> Pad36(entry.task_id),
     data_size |-> entry.size, offset |-> entry.offset]

(* IndexEntry.unpack with the strip left out: the id keeps its padding. *)
IndexEntry_unpack_padded(cell) ==
    IndexEntry(cell.task_id, cell.offset, cell.data_size)

IndexEntry_unpack(cell) ==
    IndexEntry(StripNUL(cell.task_id), cell.offset, cell.data_size)

(* len(data) of a packed TaskData: the length of the compressed bytes,     *)
(* taken as a fixed overhead plus the characters of the literals.          *)
RECURSIVE SumLen(_)
SumLen(pairs) ==
    IF pairs = << >> THEN 0
    ELSE Len(Head(pairs)[1]) + Len(Head(pairs)[2]) + SumLen(Tail(pairs))

RECURSIVE SumSources(_)
SumSources(items) ==
    IF items = << >> THEN 0
    ELSE Len(Head(items)[1]) + SumLen(Head(items)[2]) + SumSources(Tail(items))

len(data) ==
    LET r == decode(zlib_decompress(data))
    IN  8 + Len(r.task_id) + SumSources(r.translations)

DataCell(data) == [kind |-> "data", size |-> len(data), data |-> data]

RECURSIVE FileSize(_)
FileSize(file) ==
    IF file = << >> THEN 0 ELSE Head(file).size + FileSize(Tail(file))

(* The cell that starts at byte offset pos, 0 when none does. *)
CellAt(file, pos) ==
    IF \E i \in DOMAIN file : FileSize(SubSeq(file, 1, i - 1)) = pos
    THEN CHOOSE i \in DOMAIN file : FileSize(SubSeq(file, 1, i - 1)) = pos
    ELSE 0

(* ---- TranslationPackage.create ---------------------------------------- *)
(* Lines 195-199: the loop over tasks, from file position pos with the     *)
(* instance's index so far; yields the payload cells, the index and the    *)
(* position after the last payload.                                        *)
RECURSIVE WriteTasks(_, _, _, _)
WriteTasks(ts, pos, index, cells) ==
    IF ts = << >> THEN [cells |-> cells, index |-> index, pos |-> pos]
    ELSE LET data == TaskData_pack(Head(ts))
         IN  WriteTasks(Tail(ts), pos + len(data),
                        DictSet(index, Head(ts).task_id,
                                IndexEntry(Head(ts).task_id, pos, len(data))),
                        Append(cells, DataCell(data)))

(* Lines 202-204: one packed entry per value of self.index, in dict order. *)
IndexCells(index) == [i \in DOMAIN index |-> IndexEntry_pack(index[i][2])]

(* What create has written when it reaches f.seek(0): the placeholder      *)
(* header, the payloads, the index.                                        *)
Written(ts) ==
    LET w == WriteTasks(ts, PackageHeader_SIZE, << >>, << >>)
    IN  [cells |-> <<PackageHeader(0)>> \o w.cells \o IndexCells(w.index),
         index_offset |-> w.pos]

(* open(file_path, "wb"): the file exists and is empty. *)
(* The same with mode "ab": an existing file keeps its content. *)
open_ab(file) == IF file = NoFile THEN << >> ELSE file

open_wb(file) == << >>

NotWriting == [at |-> "none", index_offset |-> 0]

Entries(ts) ==
    IF ts = << >> THEN 0
    ELSE Len(DictGet(ts[Len(ts)].translations, "TEXT"))
         + Len(DictGet(ts[Len(ts)].translations, "AUDIO"))

RECURSIVE TotalEntries(_)
TotalEntries(ts) ==
    IF ts = << >> THEN 0
    ELSE Entries(ts) + TotalEntries(SubSeq(ts, 1, Len(ts) - 1))

(* The caller builds the list: TaskData(task_id), then add_translation on  *)
(* the record it is building.                                              *)
new_task(task_id) ==
    /\ cpc = NotWriting /\ creates = 0
    /\ \A i \in DOMAIN tasks : tasks[i].task_id # task_id
    /\ tasks' = Append(tasks, TaskData(task_id))
    /\ UNCHANGED notpkg
    /\ UNCHANGED <<disk, cpc, creates, last, view>>

new_translation(source, language, text) ==
    /\ cpc = NotWriting /\ creates = 0
    /\ tasks # << >>
    /\ TotalEntries(tasks) < MaxEntries
    /\ tasks' = [tasks EXCEPT ![Len(tasks)] =
                    add_translation(@, source, language, text)]
    /\ UNCHANGED notpkg
    /\ UNCHANGED <<disk, cpc, creates, last, view>>

(* create, line 190: the file is opened for writing.  What is written from *)
(* here on sits in the writer's buffer.                                    *)
create_open ==
    /\ cpc = NotWriting
    /\ creates < MaxCreates
    /\ disk' = open_wb(disk)
    /\ cpc' = [at |-> "opened", index_offset |-> 0]
    /\ UNCHANGED notpkg
    /\ UNCHANGED <<tasks, creates, last, view>>

(* create, lines 192-207: placeholder header, payloads and index are       *)
(* written; f.seek(0) flushes the buffer, so the file holds them with the  *)
(* placeholder header.                                                     *)
create_seek ==
    /\ cpc.at = "opened"
    /\ disk' = disk \o Written(tasks).cells
    /\ cpc' = [at |-> "flushed", index_offset |-> Written(tasks).index_offset]
    /\ UNCHANGED notpkg
    /\ UNCHANGED <<tasks, creates, last, view>>

(* create, line 208 and the end of the with block: the header is written   *)
(* over the first bytes and the file is closed.                            *)
create_close ==
    /\ cpc.at = "flushed"
    /\ disk' = [disk EXCEPT ![1] = PackageHeader(cpc.index_offset)]
    /\ cpc' = NotWriting
    /\ creates' = creates + 1
    /\ last' = IF creates = 0 THEN disk' ELSE last
    /\ UNCHANGED notpkg
    /\ UNCHANGED <<tasks, view>>

(* ---- the reader: open, load_index, get_task, query_text ---------------- *)
Closed == [state |-> "closed", index |-> << >>]

(* load_index from byte pos on: whole 48-byte slices until the end of the  *)
(* file; a shorter rest ends the loop.  Bytes that are no index entry are  *)
(* unpacked all the same: the outcome is "garbled" (a UnicodeDecodeError,  *)
(* or entries that point nowhere).                                         *)
RECURSIVE load_index(_, _, _)
load_index(file, pos, index) ==
    IF pos >= FileSize(file) THEN [state |-> "open", index |-> index]
    ELSE IF FileSize(file) - pos < IndexEntry_SIZE
         THEN [state |-> "open", index |-> index]
    ELSE IF CellAt(file, pos) # 0 /\ file[CellAt(file, pos)].kind = "entry"
         THEN LET entry == IndexEntry_unpack(file[CellAt(file, pos)])
              IN  load_index(file, pos + IndexEntry_SIZE,
                             DictSet(index, entry.task_id, entry))
    ELSE [state |-> "garbled", index |-> index]

(* TranslationPackage.open of a new instance: open(path, "rb"), mmap (an   *)
(* empty file cannot be mapped), PackageHeader.unpack, load_index.         *)
open_file(file) ==
    IF file = NoFile THEN [state |-> "FileNotFoundError", index |-> << >>]
    ELSE IF FileSize(file) = 0 THEN [state |-> "ValueError", index |-> << >>]
    ELSE IF file[1].magic # MAGIC \/ file[1].version # VERSION
         THEN [state |-> "ValueError", index |-> << >>]
    ELSE load_index(file, file[1].index_offset, << >>)

open_package ==
    /\ view' = open_file(disk)
    /\ UNCHANGED notpkg
    /\ UNCHANGED <<tasks, disk, cpc, creates, last>>

(* get_task: None for an id that is not in the index, else the slice       *)
(* [offset, offset + size) of the map, unpacked.                           *)
NoRecord == [task_id |-> None, translations |-> << >>]

package_get_task(file, index, task_id) ==
    IF task_id \notin Keys(index) THEN NoRecord
    ELSE LET entry == DictGet(index, task_id)
             i == CellAt(file, entry.offset)
         IN  IF i # 0 /\ file[i].kind = "data" /\ file[i].size = entry.size
             THEN TaskData_unpack(file[i].data)
             ELSE [task_id |-> <<"zlib.error">>, translations |-> << >>]

(* query_text(language, task_id, source) *)
query_text(file, index, language, task_id, source) ==
    LET task == package_get_task(file, index, task_id)
    IN  IF task = NoRecord THEN None
        ELSE TaskData_get_translation(task, source, language)

(* The file is cut short (a copy that broke off, a full disk): of its last  *)
(* index entry only the first kept bytes remain.                           *)
truncate(kept) ==
    /\ cpc = NotWriting
    /\ disk # NoFile
    /\ Len(disk) > 0
    /\ disk[Len(disk)].kind = "entry"
    /\ kept \in 1..(IndexEntry_SIZE - 1)
    /\ disk' = [disk EXCEPT ![Len(disk)] = [kind |-> "cut entry", size |-> kept]]
    /\ UNCHANGED notpkg
    /\ UNCHANGED <<tasks, cpc, creates, last, view>>

PackageInit ==
    /\ tasks = << >>
    /\ disk = NoFile
    /\ cpc = NotWriting
    /\ creates = 0
    /\ last = NoFile
    /\ view = Closed


(* ---- PackageHeader with offsets of any size ---------------------------- *)
(* A file offset is a number below 2^64, written as its four 16-bit words, *)
(* the highest first.                                                      *)
WordMax == 65535

Words == {0, 1, WordMax}

FileOffsets == [1..4 -> Words]

Zero64 == [i \in 1..4 |-> 0]

(* struct.pack("!4sBI", MAGIC, VERSION, index_offset): 4 + 1 + 4 bytes; the *)
(* I field takes a number below 2^32 (its two low words, highest first)    *)
(* and raises struct.error for any other.                                  *)
StructError == [size |-> 0, magic |-> "struct.error", version |-> 0, I |-> <<0, 0>>]

PackageHeader_pack(offset) ==
    IF offset[1] = 0 /\ offset[2] = 0
    THEN [size |-> 4 + 1 + 4, magic |-> MAGIC, version |-> VERSION,
          I |-> <<offset[3], offset[4]>>]
    ELSE StructError

(* PackageHeader.unpack(data).index_offset *)
PackageHeader_unpack(data) == <<0, 0, data.I[1], data.I[2]>>

NoHeader == [size |-> 0, magic |-> "none", version |-> 0, I |-> <<0, 0>>]

(* create, line 202: index_offset = await f.tell() *)
tell(offset) ==
    /\ hpc = "none"
    /\ hpc' = "told"
    /\ offset_told' = offset
    /\ UNCHANGED nothdr
    /\ UNCHANGED <<header, header_read>>

(* create, line 208: PackageHeader(index_offset).pack() *)
header_pack ==
    /\ hpc = "told"
    /\ header' = PackageHeader_pack(offset_told)
    /\ hpc' = IF header' = StructError THEN "struct.error" ELSE "packed"
    /\ UNCHANGED nothdr
    /\ UNCHANGED <<offset_told, header_read>>

(* load_index, line 215: PackageHeader.unpack(self._mmap[:SIZE]) *)
header_unpack ==
    /\ hpc = "packed"
    /\ header_read' = PackageHeader_unpack(header)
    /\ hpc' = "unpacked"
    /\ UNCHANGED nothdr
    /\ UNCHANGED <<offset_told, header>>

HeaderInit ==
    /\ hpc = "none"
    /\ offset_told = Zero64
    /\ header = NoHeader
    /\ header_read = Zero64

(* ---- one task's translation list, from the engine to the readers ------- *)
(* A Translation of the engine's answer: {"lang": ..., "text": ...}. *)
Translation(lang, text) == [lang |-> lang, text |-> text]

(* TranslationResult.translations: the list the parser built from the      *)
(* model's JSON, in its order; nothing makes its languages distinct.       *)
TranslationLists ==
    UNION {[1..n -> {Translation(lang, text) : lang \in Langs, text \in Texts}]
           : n \in 0..MaxListed}

NoPackage == <<"no file">>

NoAnswers == [language |-> NULL]

(* update_task_result of the translation worker: the list is stored as it  *)
(* came, the status becomes TO_PACKING.                                    *)
store_translations(result) ==
    /\ stored.status = PENDING
    /\ stored' = [status |-> TO_PACKING, translations |-> result]
    /\ UNCHANGED notrd
    /\ UNCHANGED <<packed, answers>>

(* process_package_task, lines 52-59: add_translation(TEXT, lang, text)    *)
(* for the entries of task.translations in their order.                    *)
RECURSIVE AddTexts(_, _)
AddTexts(d, translations) ==
    IF translations = << >> THEN d
    ELSE AddTexts(add_translation(d, "TEXT", LanguageCode(Head(translations).lang),
                                  Head(translations).text),
                  Tail(translations))

pack_translations ==
    /\ stored.status = TO_PACKING
    /\ packed = NoPackage
    /\ packed' = TaskData_pack(AddTexts(TaskData(<<"n">>), stored.translations))
    /\ UNCHANGED notrd
    /\ UNCHANGED <<stored, answers>>

(* update_task_result of the packaging worker *)
complete_listed ==
    /\ stored.status = TO_PACKING
    /\ packed # NoPackage
    /\ stored' = [stored EXCEPT !.status = COMPLETED]
    /\ UNCHANGED notrd
    /\ UNCHANGED <<packed, answers>>

(* get_translation, lines 108-125: 400 unless COMPLETED, 404 for an empty  *)
(* list, else the text of the first entry of the language.                 *)
RECURSIVE scan(_, _)
scan(translations, language) ==
    IF translations = << >> THEN TranslationResponse(404, NULL)
    ELSE IF Head(translations).lang = language
         THEN TranslationResponse(200, Head(translations).text)
    ELSE scan(Tail(translations), language)

get_translation_listed(task, language) ==
    IF task.status # COMPLETED THEN TranslationResponse(400, NULL)
    ELSE IF task.translations = << >> THEN TranslationResponse(404, NULL)
    ELSE scan(task.translations, language)

(* get_task_status, lines 48-58: translations[trans["lang"]] = trans["text"] *)
(* for the entries in their order.                                         *)
RECURSIVE to_dict(_, _)
to_dict(translations, d) ==
    IF translations = << >> THEN d
    ELSE to_dict(Tail(translations),
                 DictSet(d, Head(translations).lang, Head(translations).text))

get_task_status_listed(task) ==
    [status_code |-> 200, status |-> task.status,
     translations |-> to_dict(task.translations, << >>)]

(* GET /tasks/{id}/translations/{language}, GET /tasks/{id} and            *)
(* query_text(language, id, TEXT) on the package, one after the other.     *)
read_listed(language) ==
    /\ stored.status # PENDING
    /\ answers' = [language |-> language,
                   translation |-> get_translation_listed(stored, language),
                   task |-> get_task_status_listed(stored),
                   package |-> IF packed = NoPackage THEN None
                               ELSE TaskData_get_translation(
                                        TaskData_unpack(packed), "TEXT", language)]
    /\ UNCHANGED notrd
    /\ UNCHANGED <<stored, packed>>

ReadInit ==
    /\ stored = [status |-> PENDING, translations |-> << >>]
    /\ packed = NoPackage
    /\ answers = NoAnswers

(* ======================== the worker processes ========================= *)
(* ---- the launcher, core/worker/main.py --------------------------------- *)
Roles == {"audio", "translation", "packaging"}

(* The names main.py imports from the worker modules (lines 11-13). *)
Imports ==
    {<<"audio_worker", "process_audio_messages">>,
     <<"packaging_worker", "process_text_packaging_messages">>,
     <<"translation_worker", "process_text_translation_messages">>}

(* The functions the worker modules define. *)
Defines ==
    [audio_worker |->
        {"validate_message", "validate_task_status", "process_audio_task",
         "update_task_result", "process_single_message",
         "process_audio_messages", "run_worker"},
     packaging_worker |->
        {"validate_message", "validate_task_status", "process_package_task",
         "update_task_result", "process_single_message",
         "process_partition_messages", "get_dynamic_batch_size",
         "process_package_messages", "run_worker"},
     translation_worker |->
        {"validate_message", "validate_task_status", "process_translation_task",
         "update_task_result", "process_single_message",
         "process_text_messages", "run_worker"}]

(* from module import name: ImportError when the module has no such name. *)
ImportsResolve == \A i \in Imports : i[2] \in Defines[i[1]]

(* sys.argv[1], NoArg when the launcher is started without argument. *)
NoArg == "no argument"

Argv == {NoArg, "all", "audio", "translation", "packaging", "text"}

(* __main__: worker_type is "all" unless the argument names a role. *)
WorkerType(a) ==
    IF a \in {"all", "audio", "translation", "packaging"} THEN a ELSE "all"

(* run_workers(worker_type): the loops for which a task is created. *)
run_workers(type) == {r \in Roles : type \in {"all", r}}

(* python main.py [a]: the imports at the head of the module run first;    *)
(* when they resolve, __main__ runs run_workers.                           *)
main(a) ==
    /\ launcher = "not started"
    /\ argv' = a
    /\ IF ImportsResolve
       THEN /\ launcher' = "running"
            /\ workers' = run_workers(WorkerType(a))
       ELSE /\ launcher' = "ImportError"
            /\ workers' = {}
    /\ UNCHANGED notwrk
    /\ UNCHANGED <<loop, clock, ticks, memory, evaluations, batch_size,
                   last_memory_check, max_records>>

(* ---- the batch size of the packaging consume loop ---------------------- *)
BASE_BATCH_SIZE == 50

MEMORY_CHECK_INTERVAL == 60

DAY == 86400   \* timedelta.seconds is the part of the difference below a day

max(a, b) == IF a >= b THEN a ELSE b

min(a, b) == IF a <= b THEN a ELSE b

(* memory.percent as psutil may report it: around each limit of a band. *)
Percents == {0, 69, 70, 79, 80, 89, 90, 100}

(* The same with a reading on a limit counted to the band below. *)
get_dynamic_batch_size_above(percent) ==
    IF percent > 90 THEN max(10, BASE_BATCH_SIZE \div 4)
    ELSE IF percent > 80 THEN BASE_BATCH_SIZE \div 2
    ELSE IF percent > 70 THEN BASE_BATCH_SIZE
    ELSE min(BASE_BATCH_SIZE * 2, 200)

(* get_dynamic_batch_size() with memory.percent = percent. *)
get_dynamic_batch_size(percent) ==
    IF percent >= 90 THEN max(10, BASE_BATCH_SIZE \div 4)
    ELSE IF percent >= 80 THEN BASE_BATCH_SIZE \div 2
    ELSE IF percent >= 70 THEN BASE_BATCH_SIZE
    ELSE min(BASE_BATCH_SIZE * 2, 200)

(* (now - last_memory_check).seconds of a clock that does not go back. *)
seconds(delta) == delta % DAY

(* The clock moves on: by a second, to just before and onto the interval,  *)
(* by a day.                                                               *)
Steps == {1, MEMORY_CHECK_INTERVAL - 1, MEMORY_CHECK_INTERVAL, DAY}

tick(d) ==
    /\ ticks < MaxTicks
    /\ ticks' = ticks + 1
    /\ clock' = clock + d
    /\ UNCHANGED notwrk
    /\ UNCHANGED <<launcher, argv, workers, loop, memory, evaluations,
                   batch_size, last_memory_check, max_records>>

(* process_package_messages up to its loop: the first batch size. *)
process_package_messages(percent) ==
    /\ loop = "not started"
    /\ loop' = "running"
    /\ memory' = percent
    /\ evaluations' = evaluations + 1
    /\ batch_size' = get_dynamic_batch_size(percent)
    /\ last_memory_check' = clock
    /\ UNCHANGED notwrk
    /\ UNCHANGED <<launcher, argv, workers, clock, ticks, max_records>>

(* One turn of the loop: the batch size is computed again when the         *)
(* interval has passed, then getmany is called with it.                    *)
loop_iteration(percent) ==
    /\ loop = "running"
    /\ IF seconds(clock - last_memory_check) >= MEMORY_CHECK_INTERVAL
       THEN /\ memory' = percent
            /\ evaluations' = evaluations + 1
            /\ batch_size' = get_dynamic_batch_size(percent)
            /\ last_memory_check' = clock
       ELSE UNCHANGED <<memory, evaluations, batch_size, last_memory_check>>
    /\ max_records' = batch_size'
    /\ UNCHANGED notwrk
    /\ UNCHANGED <<launcher, argv, workers, loop, clock, ticks>>

NoBatchSize == 0   \* no getmany yet

WorkerInit ==
    /\ launcher = "not started"
    /\ argv = NoArg
    /\ workers = {}
    /\ loop = "not started"
    /\ clock = 0
    /\ ticks = 0
    /\ memory = 0
    /\ evaluations = 0
    /\ batch_size = NoBatchSize
    /\ last_memory_check = 0
    /\ max_records = NoBatchSize


(* ================== process_audio_task, call by call =================== *)
NoCalls ==
    [offset |-> 0, attempt |-> 0, stt |-> "none", score |-> "none",
     translation |-> "none"]

(* calls describes the attempt that is being made now. *)
Current ==
    /\ wpc["audio"] = "working"
    /\ calls.stt # "none"
    /\ calls.offset = CurrentOffset("audio")
    /\ calls.attempt = attempts["audio"]

(* Line 62: text = await aspeech2text(source_file), the first call of an   *)
(* attempt; it raises when ok is FALSE, and always when source_file is     *)
(* None.                                                                   *)
aspeech2text(ok) ==
    /\ wpc["audio"] = "working"
    /\ ~Current
    /\ ok => HasInput("audio", get_task(MsgAt("audio", CurrentOffset("audio"))))
    /\ calls' = [offset |-> CurrentOffset("audio"), attempt |-> attempts["audio"],
                 stt |-> IF ok THEN "done" ELSE "failed",
                 score |-> "none", translation |-> "none"]
    /\ UNCHANGED notaud

(* Lines 75-77: the two coroutines are created and handed to               *)
(* asyncio.gather, which schedules both.                                   *)
gather(score_task, translation_task) ==
    [calls EXCEPT !.score = score_task, !.translation = translation_task]

(* The same with the coroutines awaited one after the other. *)
gather_starts_in_turn ==
    /\ Current
    /\ calls.stt = "done"
    /\ \/ calls.score = "none" /\ calls' = [calls EXCEPT !.score = "in flight"]
       \/ /\ calls.score = "done" /\ calls.translation = "none"
          /\ calls' = [calls EXCEPT !.translation = "in flight"]
    /\ UNCHANGED notaud

gather_starts ==
    /\ Current
    /\ calls.stt = "done"
    /\ calls.score = "none" /\ calls.translation = "none"
    /\ calls' = gather("in flight", "in flight")
    /\ UNCHANGED notaud

(* validate_stt / translate returns (ok) or raises. *)
validate_stt_ends(ok) ==
    /\ Current
    /\ calls.score = "in flight"
    /\ calls' = [calls EXCEPT !.score = IF ok THEN "done" ELSE "failed"]
    /\ UNCHANGED notaud

translate_ends(ok) ==
    /\ Current
    /\ calls.translation = "in flight"
    /\ calls' = [calls EXCEPT !.translation = IF ok THEN "done" ELSE "failed"]
    /\ UNCHANGED notaud

(* await asyncio.gather(score_task, translation_task) returns when both    *)
(* have returned, and raises as soon as one of them raises; the attempt    *)
(* raises also when aspeech2text does.                                     *)
Joined ==
    Current /\ calls.score = "done" /\ calls.translation = "done"

AttemptRaised ==
    Current /\ "failed" \in {calls.stt, calls.score, calls.translation}

AudioInit == calls = NoCalls

(* ============================ specification ============================ *)
Next ==
    \/ \E t \in TaskIds, request \in CreateTaskRequest, n \in Stored :
          create_task(t, request, n)
    \/ \E t \in TaskIds : cancel_task_read(t)
    \/ \E t \in TaskIds : cancel_task_commit(t)
    \/ \E w \in Stage : receive_message(w)
    \/ \E w \in Stage : external_call_fails(w)
    \/ \E w \in Stage, text \in {NULL, EMPTY, TEXTOF}, translations \in Answers :
          process_and_update(w, text, translations)
    \/ \E w \in Stage : update_fails(w)
    \/ \E w \in Stage, n \in Stored : publish(w, n)
    \/ \E w \in Stage : publish_fails(w)
    \/ \E w \in Stage : commit_offset(w)
    \/ \E w \in Stage : crash_stage(w)
    \/ \E n \in 1..Len(topic[Package]) : getmany(n)
    \/ \E o \in DOMAIN batch : validate_task_status(o)
    \/ \E o \in DOMAIN batch : process_package_task(o)
    \/ \E o \in DOMAIN batch, torn \in BOOLEAN : package_task_fails(o, torn)
    \/ \E o \in DOMAIN batch : update_package_result(o)
    \/ \E o \in DOMAIN batch : package_update_fails(o)
    \/ process_partition_messages
    \/ crash_packaging

(* Every process at its start, no file written yet. *)
Init == PipelineInit /\ PackageInit /\ WorkerInit /\ AudioInit /\ HeaderInit /\ ReadInit

(* The pipeline: the package codec is seen through files and packages. *)
Spec == Init /\ [][Next]_allvars

(* The pipeline with every collaborator answering in the end: no worker    *)
(* dies, the database and the broker do not fail, every record is stored   *)
(* once, and the external work of a message fails on at most its first     *)
(* MaxAttempts - 1 calls (on every call when its input is None, where the  *)
(* call raises a TypeError before it reaches the engine).  No task is      *)
(* cancelled and the topics hold what the service published.               *)
EngineAnswersInTheEnd(w) ==
    \/ ~HasInput(w, get_task(MsgAt(w, CurrentOffset(w))))
    \/ LastAttempt < MaxAttempts

FairNext ==
    \/ \E t \in TaskIds, request \in CreateTaskRequest : create_task(t, request, 1)
    \/ \E w \in Stage : receive_message(w)
    \/ \E w \in Stage : attempt_fails(w)
    \/ \E w \in Stage : external_call_fails(w) /\ EngineAnswersInTheEnd(w)
    \/ \E w \in Stage, text \in {NULL, EMPTY, TEXTOF}, translations \in Answers :
          process_and_update(w, text, translations)
    \/ \E w \in Stage : publish(w, 1)
    \/ \E w \in Stage : commit_offset(w)
    \/ \E n \in 1..Len(topic[Package]) : getmany(n)
    \/ \E o \in DOMAIN batch : validate_task_status(o)
    \/ \E o \in DOMAIN batch : process_package_task(o)
    \/ \E o \in DOMAIN batch : update_package_result(o)
    \/ process_partition_messages

(* Every loop keeps running (asyncio schedules each ready coroutine, the   *)
(* consumers keep polling).                                                *)
Fairness ==
    /\ \A w \in Stage :
          /\ WF_allvars(receive_message(w))
          /\ WF_allvars(external_call_fails(w) /\ EngineAnswersInTheEnd(w))
          /\ WF_allvars(\E text \in {NULL, EMPTY, TEXTOF}, translations \in Answers :
                           process_and_update(w, text, translations))
          /\ WF_allvars(publish(w, 1))
          /\ WF_allvars(commit_offset(w))
    /\ WF_allvars(\E n \in 1..Len(topic[Package]) : getmany(n))
    /\ \A o \in Offsets :
          /\ WF_allvars(validate_task_status(o))
          /\ WF_allvars(process_package_task(o))
          /\ WF_allvars(update_package_result(o))
    /\ WF_allvars(process_partition_messages)

FairSpec == Init /\ [][FairNext]_allvars /\ Fairness

(* The same pipeline without the fairness, with DELETE requests and with   *)
(* foreign records on the topics of the two stage workers.                 *)
OpenNext ==
    \/ FairNext
    \/ \E t \in TaskIds : cancel_task_read(t)
    \/ \E t \in TaskIds : cancel_task_commit(t)
    \/ \E tp \in Stage, m \in {BAD, UNKNOWN} : foreign_record(tp, m)

OpenSpec == Init /\ [][OpenNext]_allvars

(* The pipeline with engines that fail and a session whose rollback fails: *)
(* both retries of a stage worker at work.  No worker is killed, no task   *)
(* is cancelled, every record is stored once.                              *)
RetryNext ==
    \/ \E t \in TaskIds, request \in PlainRequests : create_task(t, request, 1)
    \/ \E w \in Stage : receive_message(w)
    \/ \E w \in Stage : attempt_fails(w)
    \/ \E w \in Stage : external_call_fails(w)
    \/ \E w \in Stage : single_message_raises(w)
    \/ \E w \in Stage : single_message_gives_up(w)
    \/ \E w \in Stage, text \in {NULL, EMPTY, TEXTOF}, translations \in Answers :
          process_and_update(w, text, translations)
    \/ \E w \in Stage : publish(w, 1)
    \/ \E w \in Stage : commit_offset(w)
    \/ \E n \in 1..Len(topic[Package]) : getmany(n)
    \/ \E o \in DOMAIN batch : validate_task_status(o)
    \/ \E o \in DOMAIN batch : process_package_task(o)
    \/ \E o \in DOMAIN batch : update_package_result(o)
    \/ process_partition_messages

RetrySpec == Init /\ [][RetryNext]_allvars

(* The audio worker with process_audio_task taken call by call: engines    *)
(* may fail, nothing else does.                                            *)
AudioRequests == {r \in CreateTaskRequest : r.type = AUDIO}

AudioNext ==
    \/ \E t \in TaskIds, request \in AudioRequests : create_task(t, request, 1)
    \/ receive_message("audio")
    \/ \E ok \in BOOLEAN : aspeech2text(ok)
    \/ gather_starts
    \/ \E ok \in BOOLEAN : validate_stt_ends(ok)
    \/ \E ok \in BOOLEAN : translate_ends(ok)
    \/ AttemptRaised /\ attempt_fails("audio")
    \/ AttemptRaised /\ external_call_fails("audio")
    \/ \E text \in {EMPTY, TEXTOF}, translations \in Answers :
          Joined /\ process_and_update("audio", text, translations)
    \/ publish("audio", 1)
    \/ commit_offset("audio")

AudioSpec == Init /\ [][AudioNext]_allvars

(* The package codec with files that are cut short. *)
DamageNext ==
    \/ \E task_id \in PackageIds : new_task(task_id)
    \/ \E source \in TextSource, language \in Langs, text \in Texts :
          new_translation(source, language, text)
    \/ create_open
    \/ create_seek
    \/ create_close
    \/ \E kept \in {1, IndexEntry_SIZE - 1} : truncate(kept)
    \/ open_package

DamageSpec == Init /\ [][DamageNext]_allvars

(* One task's translation list and its readers. *)
ReadNext ==
    \/ \E result \in TranslationLists : store_translations(result)
    \/ pack_translations
    \/ complete_listed
    \/ \E language \in Langs : read_listed(language)

ReadSpec == Init /\ [][ReadNext]_allvars

(* The package header by itself. *)
HeaderNext ==
    \/ \E offset \in FileOffsets : tell(offset)
    \/ header_pack
    \/ header_unpack

HeaderSpec == Init /\ [][HeaderNext]_allvars

(* The package codec by itself. *)
PackageNext ==
    \/ \E task_id \in PackageIds : new_task(task_id)
    \/ \E source \in TextSource, language \in Langs, text \in Texts :
          new_translation(source, language, text)
    \/ create_open
    \/ create_seek
    \/ create_close
    \/ open_package

PackageSpec == Init /\ [][PackageNext]_allvars

(* The worker processes by themselves. *)
WorkerNext ==
    \/ \E a \in Argv : main(a)
    \/ \E d \in Steps : tick(d)
    \/ \E percent \in Percents : process_package_messages(percent)
    \/ \E percent \in Percents : loop_iteration(percent)

WorkerSpec == Init /\ [][WorkerNext]_allvars

TypeOK ==
    /\ \A t \in TaskIds : store[t].status \in TaskStatus \cup {NULL}
    /\ \A tp \in Topics : committed[tp] <= Len(topic[tp]) /\ position[tp] <= Len(topic[tp])
    /\ events <= MaxEvents

(* ============================= properties ============================== *)
Terminal == {COMPLETED, FAILED, CANCELLED}

Range(q) == {q[i] : i \in DOMAIN q}

(* process_single_message of worker w stands between its read of task t as *)
(* PENDING and the commit of its update.                                   *)
InFlight(w, t) == wpc[w] = "working" /\ MsgAt(w, CurrentOffset(w)) = t

(* A step in which process_single_message of worker w ends in its except   *)
(* clause (a crash also resets the consumer's position, this does not).    *)
FailStep(w) ==
    /\ wpc[w] \in {"working", "updated"}
    /\ wpc'[w] = "idle"
    /\ position'[w] = position[w]

(* C1: when process_partition_messages commits, the committed offset does  *)
(* not pass an offset of the batch whose coroutine failed.                 *)
C1_CommitNeverPassesFailed ==
    [][\A o \in DOMAIN batch :
          (batch' = NoBatch /\ batch[o] = "failed") => committed'[Package] <= o]_vars

(* C2: of all deliveries of the QueuedTask of one task, at most one writes *)
(* the package file and performs the TO_PACKING -> COMPLETED update.       *)
C2_AtMostOnePackaging == \A t \in TaskIds : completions[t] <= 1

(* C3: every change of a stored status follows an edge of the status graph *)
(* or the TO_PACKING -> CANCELLED cancellation; terminal states are final. *)
StatusEdges ==
    {<<NULL, PENDING>>, <<PENDING, TO_PACKING>>, <<TO_PACKING, COMPLETED>>,
     <<PENDING, CANCELLED>>, <<PENDING, FAILED>>, <<TO_PACKING, FAILED>>,
     <<TO_PACKING, CANCELLED>>}

C3_StatusGraph ==
    [][\A t \in TaskIds :
          store'[t].status # store[t].status
             => <<store[t].status, store'[t].status>> \in StatusEdges]_vars

(* C4: cancel_task writes CANCELLED only when the status stored at the     *)
(* moment of the write is not terminal.                                    *)
C4_CancelIsCompareAndSet ==
    [][\A t \in TaskIds :
          (cancelpc[t] = "read" /\ cancelpc'[t] = "none")
             => store[t].status \notin Terminal]_vars

(* C5: once a task is CANCELLED while a stage worker's external call for   *)
(* it is in flight, the worker's next step leaves the row as it is and     *)
(* does not go on to publish.                                              *)
C5_CancelledInFlightDiscarded ==
    [][\A w \in Stage, t \in TaskIds :
          (InFlight(w, t) /\ store[t].status = CANCELLED)
             => (store'[t] = store[t] /\ wpc'[w] # "updated")]_vars

(* C6: the offset of a message whose external work failed on every attempt *)
(* is not committed, whatever the worker processes afterwards.             *)
C6_ExhaustedNotCommitted ==
    \A w \in Stage, o \in Offsets :
        outcome[w][o] = "exhausted" => committed[w] <= o

(* C7: every offset below the committed offset of a stage consumer belongs *)
(* to a message that was advanced (updated and published) or dropped.      *)
C7_CommittedOnlyAdvancedOrDropped ==
    \A w \in Stage, o \in Offsets :
        o < committed[w] => outcome[w][o] \in {"advanced", "dropped"}

(* C8: when process_single_message of a stage worker ends in its except    *)
(* clause, the row carries nothing of this delivery: the status is not     *)
(* TO_PACKING and stt_result, stt_score and translations are NULL.         *)
C8_FailureLeavesTaskPending ==
    [][\A w \in Stage :
          FailStep(w) =>
             LET row == store'[MsgAt(w, CurrentOffset(w))]
             IN  /\ row.status \in {PENDING, CANCELLED}
                 /\ row.stt_result = NULL
                 /\ row.stt_score = NULL
                 /\ row.translations = NoList]_vars

(* C9: a task whose stage message is committed without an exception having *)
(* ended its processing, and which is TO_PACKING, has a message on the     *)
(* package topic.                                                          *)
C9_NoStrandedToPacking ==
    \A w \in Stage, o \in Offsets :
        (/\ o < Len(topic[w])
         /\ o < committed[w]
         /\ outcome[w][o] \notin {"failed", "exhausted"}
         /\ store[MsgAt(w, o)].status = TO_PACKING)
           => MsgAt(w, o) \in Range(topic[Package])

(* C10: a COMPLETED task has a packed_file and the file exists.            *)
C10_CompletedHasFile ==
    \A t \in TaskIds :
        store[t].status = COMPLETED
           => store[t].packed_file # NoPath /\ files[store[t].packed_file] # "absent"

C10_Witness == \E t \in TaskIds : store[t].status = COMPLETED

(* C11: the package of a COMPLETED task is a complete, readable file that  *)
(* holds a TEXT entry for every language of target_languages.              *)
C11_CompletedPackageCoversText ==
    \A t \in TaskIds :
        store[t].status = COMPLETED
           => /\ store[t].packed_file # NoPath
              /\ files[store[t].packed_file] = "complete"
              /\ store[t].target_languages
                    \subseteq packages[store[t].packed_file]["TEXT"]

(* C12: a TO_PACKING task has translations, with an entry for every        *)
(* language of target_languages, whatever the engine returned.             *)
C12_ToPackingCoversLanguages ==
    \A t \in TaskIds :
        store[t].status = TO_PACKING
           => /\ store[t].translations # NoList
              /\ store[t].target_languages \subseteq store[t].translations

(* C13: the package of a COMPLETED AUDIO task holds an AUDIO entry for     *)
(* every language of target_languages, for every transcript.               *)
C13_CompletedAudioCoversAudio ==
    \A t \in TaskIds :
        (store[t].status = COMPLETED /\ store[t].type = AUDIO)
           => /\ store[t].packed_file # NoPath
              /\ store[t].target_languages
                    \subseteq packages[store[t].packed_file]["AUDIO"]

(* C14: cancel returns false (DELETE 404) and goes no further iff the task *)
(* is unknown or COMPLETED, FAILED or CANCELLED; otherwise it goes on to   *)
(* write, the write sets CANCELLED, DELETE answers 204, and a cancel after *)
(* that returns false again.                                               *)
C14_CancelContract ==
    /\ [](\A t \in TaskIds :
            /\ cancel_task_returns(get_task(t))
                  <=> (store[t] # NoTask /\ store[t].status \notin Terminal)
            /\ cancel_task_status(t) =
                  IF store[t] = NoTask \/ store[t].status \in Terminal
                  THEN 404 ELSE 204)
    /\ [][\A t \in TaskIds :
            /\ (cancelpc[t] = "none" /\ cancelpc'[t] = "read")
                  => (store[t] # NoTask /\ store[t].status \notin Terminal)
            /\ (cancelpc[t] = "read" /\ cancelpc'[t] = "none")
                  => /\ store'[t].status = CANCELLED
                     /\ ~cancel_task_returns(store'[t])]_vars

C14_Witness ==
    \E t \in TaskIds :
        /\ store[t].status = CANCELLED
        /\ cancelpc[t] = "none"
        /\ cancel_task_status(t) = 404

(* C15: a POST whose send returns creates one PENDING record under an id   *)
(* not used before and appends the records of one send of that id to the   *)
(* audio topic for AUDIO and to the translation topic for TEXT; the other  *)
(* topics, the package topic among them, and the other rows are untouched. *)
C15_OnePublishToTheTopicOfTheType ==
    [][\A t \in TaskIds :
          (store[t] = NoTask /\ store'[t] # NoTask /\ topic' # topic)
             => /\ store'[t].status = PENDING
                /\ \A u \in TaskIds \ {t} : store'[u] = store[u]
                /\ \A tp \in Topics : t \notin Range(topic[tp])
                /\ LET tp == IF store'[t].type = AUDIO THEN "audio"
                             ELSE "translation"
                   IN  /\ store'[t].type \in TaskType
                       /\ \E n \in {1, 2} : topic' = producer_send(tp, t, n)
                       /\ Len(topic'[tp]) - Len(topic[tp]) = 1
                             \/ events' > events]_vars

C15_Witness ==
    \E t \in TaskIds :
        /\ store[t].type = TEXT
        /\ store[t].status = PENDING
        /\ topic["translation"] = <<t>>
        /\ topic["audio"] = << >>

C17_EmptyLanguagesRejected ==
    \A t \in TaskIds : store[t].target_languages # {}

(* C18: every stored task keeps the field rules of its type.               *)
C18_TypeInvariants ==
    \A t \in TaskIds :
        /\ store[t].type = AUDIO
              => (store[t].source_file # NULL /\ store[t].text = NULL)
        /\ store[t].type = TEXT
              => /\ store[t].text # NULL
                 /\ store[t].source_file = NULL
                 /\ store[t].reference_text = NULL

(* C19: GET translations/{language} answers 404 for an unknown task, else  *)
(* 400 unless the status is COMPLETED, else 404 when no text is stored for *)
(* the language, else the stored text.                                     *)
C19_GetTranslation ==
    \A t \in TaskIds, language \in Langs :
        get_translation(t, language) =
            IF store[t] = NoTask THEN TranslationResponse(404, NULL)
            ELSE IF store[t].status # COMPLETED THEN TranslationResponse(400, NULL)
            ELSE IF language \notin store[t].translations
                 THEN TranslationResponse(404, NULL)
            ELSE TranslationResponse(200, language)

C19_Witness ==
    \E t \in TaskIds :
        /\ store[t].status = COMPLETED
        /\ get_translation(t, "en-US").status_code = 200
        /\ get_translation(t, "zh-CN").status_code = 404

(* C20: GET /tasks/{task_id} answers every existing task, in every status, *)
(* with its status and the results stored so far, the stored score of an   *)
(* AUDIO task included.                                                    *)
C20_GetTaskStatus ==
    \A t \in TaskIds :
        store[t] # NoTask
           => /\ get_task_status(t).status_code = 200
              /\ get_task_status(t).status = store[t].status
              /\ get_task_status(t).stt_result = store[t].stt_result
              /\ get_task_status(t).stt_accuracy = store[t].stt_score

(* C25: a packaging of a task that was packaged before leaves the record   *)
(* as the first packaging left it: same status, packed_file, completed_at  *)
(* and translations.                                                       *)
C25_RepackKeepsRecord ==
    [][\A t \in TaskIds :
          (/\ completions[t] >= 1
           /\ completions'[t] = completions[t] + 1
           /\ store[t].status = COMPLETED)
             => /\ store'[t].status = store[t].status
                /\ store'[t].packed_file = store[t].packed_file
                /\ store'[t].completed_at = store[t].completed_at
                /\ store'[t].translations = store[t].translations]_vars

(* ---- the pipeline when every collaborator answers in the end ----------- *)
(* The translation worker's external work for TEXT task t has failed on    *)
(* two calls (the engine was reached: the text is there).                  *)
TwoFailed(t) ==
    /\ attempts["translation"] = MaxAttempts - 1
    /\ position["translation"] >= 1
    /\ MsgAt("translation", CurrentOffset("translation")) = t
    /\ store[t].type = TEXT
    /\ HasInput("translation", store[t])

(* Task t is COMPLETED, its file is there, and every record of t on the    *)
(* translation topic and on the package topic is committed.                *)
Done(t) ==
    /\ store[t].status = COMPLETED
    /\ files[t] = "complete"
    /\ t \in Range(topic[Package])
    /\ \A tp \in {"translation", Package}, o \in Offsets :
          (o < Len(topic[tp]) /\ MsgAt(tp, o) = t) => committed[tp] > o

(* C27: a TEXT task whose engine call fails twice and then succeeds        *)
(* reaches TO_PACKING and in the end COMPLETED with its offsets on the     *)
(* translation topic and on the package topic committed; the commit of a   *)
(* stage message happens once (it is not yet committed when it is          *)
(* committed), the package topic's commits only move forward, and the      *)
(* file is written once and the row completed once.                        *)
C27_TwoFailuresThenCompleted ==
    /\ \A t \in TaskIds :
          /\ TwoFailed(t) ~> (store[t].status \in {TO_PACKING, COMPLETED})
          /\ TwoFailed(t) ~> Done(t)
    /\ [][/\ \A w \in Stage :
                (wpc[w] = "published" /\ wpc'[w] = "idle")
                   => /\ committed[w] <= CurrentOffset(w)
                      /\ committed'[w] = CurrentOffset(w) + 1
          /\ committed'[Package] >= committed[Package]
          /\ \A o \in DOMAIN batch :
                (batch[o] = "validated" /\ batch' # NoBatch /\ batch'[o] = "written")
                   => files[MsgAt(Package, o)] = "absent"
          /\ \A t \in TaskIds : completions'[t] <= 1]_vars

C27_Witness ==
    \E t \in TaskIds : TwoFailed(t) /\ Done(t)

(* Nothing is left to do: every worker is idle and has taken every record  *)
(* of its topic.                                                           *)
Quiet ==
    /\ \A w \in Stage : wpc[w] = "idle" /\ position[w] = Len(topic[w])
    /\ batch = NoBatch
    /\ position[Package] = Len(topic[Package])

(* C28: with no failure and no cancellation, every task that was submitted *)
(* is COMPLETED, with a complete package file, once the workers have       *)
(* nothing left to do.                                                     *)
C28_EveryTaskCompletes ==
    Quiet =>
       \A t \in TaskIds :
          store[t] # NoTask
             => /\ store[t].status = COMPLETED
                /\ store[t].packed_file # NoPath
                /\ files[t] = "complete"

(* C30: when a stage worker takes a message that does not validate, names  *)
(* no task or names a task that is not PENDING, it commits the message's   *)
(* offset and does nothing else: it does not start the external work, no   *)
(* row changes and no topic gets a record.                                 *)
C30_DropCommitsOnly ==
    [][\A w \in Stage :
          (/\ wpc[w] = "idle"
           /\ position'[w] = position[w] + 1
           /\ \/ ~validate_message(MsgAt(w, position[w]))
              \/ get_task(MsgAt(w, position[w])) = NoTask
              \/ get_task(MsgAt(w, position[w])).status # PENDING)
             => /\ committed'[w] = position[w] + 1
                /\ wpc'[w] = "idle"
                /\ attempts'[w] = 0
                /\ store' = store
                /\ topic' = topic]_vars

C30_Witness ==
    /\ \E w \in Stage, o \in Offsets :
          /\ o < Len(topic[w]) /\ MsgAt(w, o) = BAD
          /\ outcome[w][o] = "dropped" /\ committed[w] = o + 1
    /\ \E w \in Stage, o \in Offsets :
          /\ o < Len(topic[w]) /\ MsgAt(w, o) \in TaskIds
          /\ outcome[w][o] = "dropped" /\ committed[w] = o + 1
          /\ store[MsgAt(w, o)].status = CANCELLED

(* ---- the package codec ------------------------------------------------- *)
(* The record of the list with the given id. *)
TaskOf(task_id) ==
    tasks[CHOOSE i \in DOMAIN tasks : tasks[i].task_id = task_id]

Listed(task_id) == \E i \in DOMAIN tasks : tasks[i].task_id = task_id

(* Two records with the same task_id and the same text, or none, for every *)
(* source and language.                                                    *)
SameRecord(a, b) ==
    /\ a.task_id = b.task_id
    /\ \A source \in TextSource, language \in Langs :
          TaskData_get_translation(a, source, language)
             = TaskData_get_translation(b, source, language)

(* C21: TaskData.unpack(TaskData.pack(d)) has the task_id of d and the     *)
(* source -> language -> text mapping of d, empty maps included.           *)
C21_PackRoundTrip ==
    \A i \in DOMAIN tasks :
        SameRecord(TaskData_unpack(TaskData_pack(tasks[i])), tasks[i])

C21_Witness ==
    \E i \in DOMAIN tasks :
        /\ TaskData_get_translation(tasks[i], "TEXT", "en-US") = <<"'", "\\", "n">>
        /\ TaskData_get_translation(tasks[i], "TEXT", "zh-CN") = <<"'", "\"", LF>>
        /\ DictGet(tasks[i].translations, "AUDIO") = << >>

(* C22: after create(tasks) and open(), get_task returns the record of     *)
(* every id of the list and None for any other id, and query_text returns  *)
(* the stored text or None; also for a list of several tasks.              *)
C22_Lookup ==
    (cpc = NotWriting /\ creates >= 1 /\ view = open_file(disk))
       => /\ view.state = "open"
          /\ \A task_id \in PackageIds :
                /\ IF Listed(task_id)
                   THEN SameRecord(package_get_task(disk, view.index, task_id),
                                   TaskOf(task_id))
                   ELSE package_get_task(disk, view.index, task_id) = NoRecord
                /\ \A source \in TextSource, language \in Langs :
                      query_text(disk, view.index, language, task_id, source)
                         = IF Listed(task_id)
                           THEN TaskData_get_translation(TaskOf(task_id),
                                                         source, language)
                           ELSE None

C22_Witness ==
    /\ cpc = NotWriting /\ creates >= 1 /\ view = open_file(disk)
    /\ Len(tasks) = 2
    /\ query_text(disk, view.index, "zh-CN", <<"n">>, "AUDIO") = <<"'", "\"", LF>>
    /\ query_text(disk, view.index, "en-US", <<"n">>, "AUDIO") = None

(* C23: whatever a reader opens is no file at all or the complete package: *)
(* no open sees the file while create is writing it.                       *)
C23_NoPartialFileObserved ==
    \/ view.state \in {"closed", "FileNotFoundError"}
    \/ view = open_file(last)

(* C24: a second create from the same list leaves the file byte for byte   *)
(* as the first did, and the index entries follow the order of the list.   *)
C24_RewriteIdentical ==
    (cpc = NotWriting /\ creates >= 1)
       => /\ disk = last
          /\ Len(disk) = 1 + 2 * Len(tasks)
          /\ \A i \in DOMAIN tasks :
                /\ disk[1 + Len(tasks) + i].kind = "entry"
                /\ StripNUL(disk[1 + Len(tasks) + i].task_id) = tasks[i].task_id

C24_Witness ==
    /\ cpc = NotWriting /\ creates = 2
    /\ Len(tasks) = 2
    /\ tasks[1].task_id = [i \in 1..TaskIdWidth |-> "n"]

(* ---- the worker processes ---------------------------------------------- *)
(* C26: the batch size is max(10, BASE/4) = 12 for a memory utilisation of *)
(* 90 or more, 25 from 80 up to 90, 50 from 70 up to 80 and                *)
(* min(2*BASE, 200) = 100 below 70; the batch size the loop hands to       *)
(* getmany is one of these four; and the batch size is computed again only *)
(* when 60 seconds or more have passed since it was computed last.         *)
C26_BatchSizeBands ==
    /\ [](loop = "running"
            => /\ memory >= 90 => batch_size = 12
               /\ (80 <= memory /\ memory < 90) => batch_size = 25
               /\ (70 <= memory /\ memory < 80) => batch_size = 50
               /\ memory < 70 => batch_size = 100
               /\ max_records # NoBatchSize
                     => max_records = batch_size /\ max_records \in {12, 25, 50, 100})
    /\ [][(evaluations >= 1 /\ evaluations' # evaluations)
             => clock - last_memory_check >= 60]_wrkvars

(* The loop has computed the batch size a second time, a minute or more    *)
(* after the first, found the memory in another band and called getmany    *)
(* with the new size.                                                      *)
C26_Witness ==
    /\ loop = "running"
    /\ evaluations = 2
    /\ last_memory_check >= 60
    /\ memory = 90
    /\ batch_size = 12
    /\ max_records = 12

(* C29: the launcher started with a role runs the worker loops the role    *)
(* selects.                                                                *)
C29_LauncherRunsSelectedLoops ==
    launcher # "not started"
       => /\ launcher = "running"
          /\ workers = run_workers(WorkerType(argv))

(* ---- the packaging worker's batch -------------------------------------- *)
(* process_partition_messages has gathered the batch and commits. *)
PartitionDone ==
    /\ DOMAIN batch # {}
    /\ batch' = NoBatch
    /\ events' = events

(* C31: a message the packaging worker drops (it does not validate, names  *)
(* no task or names a task that is not TO_PACKING) has its offset          *)
(* committed when its batch is done, whatever became of the other messages *)
(* of the batch.                                                           *)
C31_DroppedIsCommitted ==
    [][PartitionDone
         => \A o \in DOMAIN batch :
               batch[o] = "dropped" => committed'[Package] > o]_vars

(* ---- the two retries of a stage worker --------------------------------- *)
(* Calls of translate made for the message the translation worker took     *)
(* last: LastAttempt in each run of process_single_message that raised,    *)
(* the failed ones of the present run, and the one that returned.          *)
TranslateCalls ==
    IF position["translation"] = 0
       \/ ~HasInput("translation",
                    get_task(MsgAt("translation", CurrentOffset("translation"))))
    THEN 0
    ELSE runs["translation"] * LastAttempt + attempts["translation"]
         + (IF wpc["translation"] \in {"updated", "published"} THEN 1 ELSE 0)

(* C32: for one delivery of a message the translation engine is called at  *)
(* most 3 times and not again after a call that returned, and              *)
(* process_single_message of a stage worker runs at most 3 times.          *)
C32_AtMostThreeAttempts ==
    /\ TranslateCalls <= MaxAttempts
    /\ \A w \in Stage : runs[w] + 1 <= MaxAttempts
    /\ \A w \in Stage : wpc[w] \in {"updated", "published"} => attempts[w] < MaxAttempts

(* ---- the audio worker, call by call ------------------------------------ *)
(* C33: in an attempt of the audio worker scoring and translation start    *)
(* only when the transcript is there, and they start together; the row of  *)
(* an AUDIO task holds stt_result, stt_score, translations and TO_PACKING  *)
(* all at once or none of them, they are written in the one step that      *)
(* follows the return of both calls, and an attempt that raises writes     *)
(* nothing.                                                                *)
C33_AudioJoinThenOneCommit ==
    /\ [](/\ (calls.score # "none" \/ calls.translation # "none")
                => calls.stt = "done"
          /\ calls.score = "none" <=> calls.translation = "none"
          /\ \A t \in TaskIds :
                store[t].type = AUDIO
                   => \/ /\ store[t].status = PENDING
                         /\ store[t].stt_result = NULL
                         /\ store[t].stt_score = NULL
                         /\ store[t].translations = NoList
                      \/ /\ store[t].status # PENDING
                         /\ store[t].stt_result # NULL
                         /\ store[t].stt_score # NULL
                         /\ store[t].translations # NoList)
    /\ [][/\ (\E t \in TaskIds : store[t] # NoTask /\ store'[t] # store[t])
                => /\ Joined
                   /\ store'[MsgAt("audio", CurrentOffset("audio"))].status
                         = TO_PACKING
          /\ (AttemptRaised /\ attempts'["audio"] # attempts["audio"])
                => store' = store]_allvars

(* Both calls were in flight together, one returned before the other, and  *)
(* the row was written after the second.                                   *)
C33_Witness ==
    /\ wpc["audio"] = "updated"
    /\ calls.score = "done" /\ calls.translation = "done"
    /\ \E t \in TaskIds :
          /\ store[t].type = AUDIO /\ store[t].status = TO_PACKING
          /\ store[t].stt_result = TEXTOF /\ store[t].stt_score = SCORE
          /\ store[t].translations = Langs

(* C34: the packaging worker commits only when every coroutine of the      *)
(* partition batch has finished; it then commits the highest offset that   *)
(* succeeded plus one, and nothing when none succeeded.                    *)
C34_CommitAfterGather ==
    [][/\ committed'[Package] # committed[Package]
            => /\ PartitionDone
               /\ \A o \in DOMAIN batch : batch[o] \in Finished
       /\ PartitionDone
            => IF \E o \in DOMAIN batch : batch[o] = "ok"
               THEN \E o \in DOMAIN batch :
                       /\ batch[o] = "ok"
                       /\ \A p \in DOMAIN batch : batch[p] = "ok" => p <= o
                       /\ committed'[Package] = o + 1
               ELSE committed'[Package] = committed[Package]]_vars

(* A batch is done whose first message succeeded and whose last did not.   *)
C34_Witness ==
    /\ batch = NoBatch
    /\ committed[Package] = 1
    /\ position[Package] = 2
    /\ \E t \in TaskIds : completions[t] = 1

(* C35: no task is ever FAILED, and a step in which the processing of a    *)
(* message fails (a stage worker gives up or fails, a packaging coroutine  *)
(* fails) leaves every row as it was.                                      *)
C35_NeverFailed ==
    /\ [](\A t \in TaskIds : store[t].status # FAILED)
    /\ [][(\/ \E w \in Stage, o \in Offsets :
                /\ outcome'[w][o] # outcome[w][o]
                /\ outcome'[w][o] \in {"exhausted", "failed"}
           \/ \E o \in DOMAIN batch :
                batch' # NoBatch /\ batch[o] # "failed" /\ batch'[o] = "failed")
             => store' = store]_vars

(* The translation of a task was given up and the task is PENDING; or its  *)
(* packaging failed and it is TO_PACKING.                                  *)
C35_Witness ==
    \/ \E w \in Stage, o \in Offsets :
          /\ outcome[w][o] = "exhausted"
          /\ wpc[w] = "idle" /\ position[w] = o + 1
          /\ store[MsgAt(w, o)].status = PENDING
    \/ \E o \in DOMAIN batch :
          batch[o] = "failed" /\ store[MsgAt(Package, o)].status = TO_PACKING

(* C36: when create has returned, the file is the header, one payload per  *)
(* task of the list in the order of the list, and one 48-byte index entry  *)
(* per task in the same order up to the end of the file; index_offset is   *)
(* the offset of the first index entry, which is the header size plus the  *)
(* payload sizes; the entry of a task gives the offset at which its        *)
(* payload starts and the payload's size.                                  *)
C36_FileLayout ==
    (cpc = NotWriting /\ creates >= 1)
       => LET n == Len(tasks)
          IN  /\ Len(disk) = 1 + 2 * n
              /\ disk[1].kind = "header" /\ disk[1].size = PackageHeader_SIZE
              /\ disk[1].index_offset = FileSize(SubSeq(disk, 1, 1 + n))
              /\ disk[1].index_offset
                    = PackageHeader_SIZE
                      + FileSize([i \in 1..n |-> disk[1 + i]])
              /\ disk[1].index_offset + n * 48 = FileSize(disk)
              /\ \A i \in 1..n :
                    /\ disk[1 + i].kind = "data"
                    /\ SameRecord(TaskData_unpack(disk[1 + i].data), tasks[i])
                    /\ disk[1 + n + i].kind = "entry"
                    /\ disk[1 + n + i].size = 48
                    /\ StripNUL(disk[1 + n + i].task_id) = tasks[i].task_id
                    /\ disk[1 + n + i].offset = FileSize(SubSeq(disk, 1, i))
                    /\ disk[1 + n + i].data_size = disk[1 + i].size

(* A list of two records, one of them with translations, has been written. *)
C36_Witness ==
    /\ cpc = NotWriting /\ creates >= 1
    /\ Len(tasks) = 2
    /\ TotalEntries(tasks) = MaxEntries
    /\ disk[2].size # disk[3].size

(* ---- the package header ------------------------------------------------ *)
(* C37: the header is 16 bytes long, and every index_offset below 2^64 is  *)
(* packed without an error and is read back as it was written.             *)
C37_HeaderHoldsU64 ==
    /\ hpc # "struct.error"
    /\ hpc \in {"packed", "unpacked"} => header.size = 16
    /\ hpc = "unpacked" => header_read = offset_told

(* ---- files that are cut short ------------------------------------------ *)
(* The file has a header that can be read and its index region, from       *)
(* index_offset to the end of the file, is no whole number of entries.     *)
IndexRegionCut(file) ==
    /\ file # NoFile
    /\ FileSize(file) > 0
    /\ file[1].kind = "header"
    /\ file[1].index_offset <= FileSize(file)
    /\ (FileSize(file) - file[1].index_offset) % IndexEntry_SIZE # 0

(* C38: opening a file whose index region is no whole number of 48-byte    *)
(* entries ends with a TruncatedIndex error; the reader holds no index of  *)
(* such a file.                                                            *)
C38_TruncatedIndexRejected ==
    (view = open_file(disk) /\ IndexRegionCut(disk))
       => view.state = "TruncatedIndex" /\ view.index = << >>

(* ---- the read endpoints and the package -------------------------------- *)
(* C39: for a COMPLETED task and a language, the per-language endpoint     *)
(* returns text t exactly when the status endpoint reports t under the     *)
(* language, and t is the text query_text finds under TEXT in the package, *)
(* also when the stored list has several entries of the language.          *)
C39_EndpointsAgree ==
    (answers # NoAnswers /\ answers.task.status = COMPLETED)
       => /\ (answers.translation.status_code = 200)
                <=> (answers.language \in Keys(answers.task.translations))
          /\ answers.translation.status_code = 200
                => /\ answers.translation.text
                        = DictGet(answers.task.translations, answers.language)
                   /\ answers.translation.text = answers.package

(* ---- the package topic -------------------------------------------------- *)
(* C40: every record of the package topic names a task that has a row      *)
(* whose update by the stage worker is committed (the row is not PENDING   *)
(* and holds its translations); a step that adds records to the package    *)
(* topic adds the message a stage worker consumed last, for a task whose   *)
(* update is already in the store, and writes nothing to the store.        *)
C40_UpdateBeforePublish ==
    /\ [](\A i \in DOMAIN topic[Package] :
            /\ get_task(topic[Package][i]) # NoTask
            /\ get_task(topic[Package][i]).status # PENDING
            /\ get_task(topic[Package][i]).translations # NoList)
    /\ [][topic'[Package] # topic[Package] =>
            \E w \in Stage :
                /\ position[w] >= 1
                /\ store' = store
                /\ LET t == MsgAt(w, CurrentOffset(w))
                   IN  /\ get_task(t).status \in {TO_PACKING, CANCELLED}
                       /\ get_task(t).translations # NoList
                       /\ \/ topic'[Package] = Append(topic[Package], t)
                          \/ topic'[Package] = Append(Append(topic[Package], t), t)]_vars

C40_Witness ==
    /\ topic[Package] # << >>
    /\ \E w \in Stage :
          /\ wpc[w] = "published"
          /\ MsgAt(w, CurrentOffset(w)) = topic[Package][Len(topic[Package])]
          /\ get_task(MsgAt(w, CurrentOffset(w))).status = TO_PACKING

====
